---------------------------- MODULE Spec2Model ----------------------------
(***************************************************************************)
(* A model of bfstool: the Lua-style name hash, the Huffman name codec,   *)
(* the archive reader's validation and name decoding, and the archive     *)
(* builder for the name-table revision (V2BfsFile::archive).               *)
(*                                                                         *)
(* Byte strings are sequences of numbers in 0..255.  TLC's integers are    *)
(* 32-bit signed, so the 64-bit accumulator of lua_hash is kept as three   *)
(* 16-bit limbs (least significant first).                                 *)
(***************************************************************************)
EXTENDS Integers, Sequences, FiniteSets, TLC

VARIABLES
    hash_in,      \* lua_hash: the argument `string`
    hash_out,     \* lua_hash: the returned bucket, or -1 before the call
    huff_pc,      \* name codec: "start", "built", "coded", "panic" ("idle" elsewhere)
    huff_names,   \* create_huffman_tree: the argument `names`
    huff_tree,    \* create_huffman_tree: the serialized dictionary it returned
    huff_data,    \* huffman_encode: the argument `data`
    huff_encoded, \* huffman_encode: the returned bytes
    huff_decoded, \* huffman_decode: the returned bytes
    rd_pc,        \* reader: "start", "read", "listed" ("idle" elsewhere)
    rd_stream,    \* read_archive: the argument `archive`
    rd_format,    \* read_archive: the argument `archive_format`
    rd_force,     \* read_archive: the argument `force`
    rd_checks,    \* whether the build checks integer overflow
    rd_result,    \* read_archive: how it ended
    rd_reader,    \* read_archive: the ReadArchive it returned, if any
    rd_listing,   \* file_names: how it ended, and the names
    ar_pc,        \* archive: "start", "create", "data", "done", "error", "panic" ("idle" elsewhere)
    ar_in,        \* archive: its arguments
    ar_bfs,       \* archive: bfs_file and the locals computed before the destination is created
    ar_i,         \* archive: the files the loop has processed
    ar_headers,   \* archive: bfs_file.file_headers
    ar_dedupe,    \* archive: dedupe_hash_to_header
    ar_writer,    \* archive: file_writer and the destination behind it
    ar_created,   \* archive: whether File::create made the destination
    ar_failed,    \* archive: the part that returned the error, "none" without one
    ar_file,      \* the bytes of the destination after archive returned
    dd_serialized, \* deserialize_huffman_dict: the argument `serialized`
    dd_result,    \* deserialize_huffman_dict: how it ended, and the dictionary
    v1_files,     \* V1BfsFile::read_bfs_from_file: the raw names and data offsets read
    v1_result,    \* V1BfsFile::read_bfs_from_file: how it ended, and file_name_to_header_map
    ex_pc,        \* reader calls: "start", then the call made or the state of extract_files
    ex_format,    \* the format of the ReadArchive
    ex_stream,    \* the stream the ReadArchive reads from
    ex_reader,    \* the ReadArchive
    ex_asked,     \* the names a call was given
    ex_infos,     \* file_info, multiple_file_info: what was returned
    ex_queue,     \* extract_files: the (name, info) pairs not yet extracted
    ex_calls,     \* extract_files: the calls of the callback, in order
    ex_outputs,   \* extract_files: the files created in the folder, in order
    ex_result,    \* extract_files: how it ended
    ex_ops,       \* extract_files: the seeks and reads of the reader, in order
    bd_request,   \* archive of a revision: the arguments
    bd_result,    \* archive of a revision: how it ended, and the file header written
    bd_layout,    \* V1BfsFile::archive: the offsets computed for the headers
    nm_tables,    \* decode_all_names: its four arguments
    nm_result,    \* decode_all_names: how it ended, and the names
    en_entry,     \* the HuffmanTreeEntry values of a dictionary of the builder
    en_bytes,     \* HuffmanTreeEntry::to_bytes of the entries
    en_parsed     \* what the readers make of the dictionary

hashVars == <<hash_in, hash_out>>
huffVars == <<huff_pc, huff_names, huff_tree, huff_data, huff_encoded, huff_decoded>>
rdVars == <<rd_pc, rd_stream, rd_format, rd_force, rd_checks, rd_result, rd_reader,
           rd_listing>>
arVars == <<ar_pc, ar_in, ar_bfs, ar_i, ar_headers, ar_dedupe, ar_writer, ar_created,
           ar_failed, ar_file>>
dictVars == <<dd_serialized, dd_result>>
v1Vars == <<v1_files, v1_result>>
exVars == <<ex_pc, ex_format, ex_stream, ex_reader, ex_asked, ex_infos, ex_queue, ex_calls,
           ex_outputs, ex_result, ex_ops>>
bdVars == <<bd_request, bd_result, bd_layout>>
nmVars == <<nm_tables, nm_result>>
enVars == <<en_entry, en_bytes, en_parsed>>
restVars == <<nmVars, enVars>>
moreVars == <<dictVars, v1Vars, exVars, bdVars, restVars>>
vars == <<hashVars, huffVars, rdVars, arVars, moreVars>>

(***************************************************************************)
(* Bounds of the model.                                                    *)
(***************************************************************************)
MaxHashLen == 5
MaxHuffNames == 2
MaxHuffData == 3
MaxDictSteps == 16
MaxFiles == 3
MaxDictLen == 4
MaxV1Files == 2
MaxV1NameLen == 2
MaxInfoFiles == 2
MaxNameData == 3
MaxNameTable == 2

(***************************************************************************)
(* Generic helpers on sequences and small numbers.                         *)
(***************************************************************************)
Min(a, b) == IF a < b THEN a ELSE b

RECURSIVE Pow2(_)
Pow2(n) == IF n = 0 THEN 1 ELSE 2 * Pow2(n - 1)

RECURSIVE BitXor(_, _)
BitXor(a, b) ==
    IF a = 0 THEN b
    ELSE IF b = 0 THEN a
    ELSE (((a % 2) + (b % 2)) % 2) + 2 * BitXor(a \div 2, b \div 2)

RECURSIVE BitAnd(_, _)
BitAnd(a, b) ==
    IF a = 0 \/ b = 0 THEN 0
    ELSE ((a % 2) * (b % 2)) + 2 * BitAnd(a \div 2, b \div 2)

SeqOfLen(S, n) == [1..n -> S]

Range(f) == {f[x] : x \in DOMAIN f}

\* Body applied to the value of `value`, which is computed once
Bind(value, Body(_)) == CHOOSE result \in {Body(x) : x \in {value}} : TRUE

RECURSIVE SetToSeq(_)
\* the elements of a finite set of byte strings or numbers, in some order
SetToSeq(S) == IF S = {} THEN <<>>
               ELSE LET x == CHOOSE y \in S : TRUE IN <<x>> \o SetToSeq(S \ {x})

RECURSIVE Flatten(_)
Flatten(ss) == IF ss = <<>> THEN <<>> ELSE Head(ss) \o Flatten(Tail(ss))

SeqsUpTo(S, n) == UNION {SeqOfLen(S, k) : k \in 0..n}

\* to_le_bytes of an integer of n bytes
RECURSIVE Le(_, _)
Le(value, n) == IF n = 0 THEN <<>> ELSE <<value % 256>> \o Le(value \div 256, n - 1)

LeAll(values, n) == Flatten([i \in DOMAIN values |-> Le(values[i], n)])

(***************************************************************************)
(* util.rs: lua_hash.  `hash` is a u64 held as limbs <<l0, l1, l2>> with   *)
(* value l0 + 2^16*l1 + 2^32*l2; it stays below 2^38 between the masks.    *)
(***************************************************************************)
HASH_SIZE == 997

Limbs(n) == <<n % 65536, n \div 65536, 0>>

\* hash << 5
LimbShl5(h) ==
    LET t0 == h[1] * 32
        t1 == h[2] * 32 + (t0 \div 65536)
        t2 == h[3] * 32 + (t1 \div 65536)
    IN  <<t0 % 65536, t1 % 65536, t2 % 65536>>

\* hash >> 2
LimbShr2(h) ==
    <<(h[1] \div 4) + (h[2] % 4) * 16384,
      (h[2] \div 4) + (h[3] % 4) * 16384,
      h[3] \div 4>>

LimbAdd(a, b) ==
    LET t0 == a[1] + b[1]
        t1 == a[2] + b[2] + (t0 \div 65536)
        t2 == a[3] + b[3] + (t1 \div 65536)
    IN  <<t0 % 65536, t1 % 65536, t2 % 65536>>

LimbXor(a, b) == <<BitXor(a[1], b[1]), BitXor(a[2], b[2]), BitXor(a[3], b[3])>>

\* hash &= 0xFFFFFFFF
LimbMask32(h) == <<h[1], h[2], 0>>

\* hash % 0x3E5, for a value below 2^32
LimbMod997(h) == (((h[2] % HASH_SIZE) * (65536 % HASH_SIZE)) + h[1]) % HASH_SIZE

\* string.get(index - 1).unwrap_or(&0)
ByteAt(string, index) == IF index \in 1..Len(string) THEN string[index] ELSE 0

\* (step..=len).rev().step_by(step): len, len - step, ... while >= step
RECURSIVE HashIndices(_, _)
HashIndices(index, step) ==
    IF index < step THEN <<>> ELSE <<index>> \o HashIndices(index - step, step)

HashStep(hash, byte) ==
    LimbMask32(LimbXor(hash,
        LimbAdd(LimbAdd(LimbShl5(hash), LimbShr2(hash)), Limbs(byte))))

RECURSIVE HashFold(_, _, _)
HashFold(hash, string, indices) ==
    \* the test of hash[3] (0 after every mask) makes TLC evaluate the
    \* accumulator at each iteration instead of nesting the pending steps
    IF indices = <<>> \/ hash[3] # 0 THEN hash
    ELSE HashFold(HashStep(hash, ByteAt(string, Head(indices))), string, Tail(indices))

\* A variant that visits (step..len), leaving out the last byte of the name.
lua_hash_skip_last(string) ==
    LET step == (Len(string) \div 32) + 1
    IN  LimbMod997(HashFold(Limbs(Len(string)), string,
                            HashIndices(Len(string) - 1, step)))

lua_hash(string) ==
    LET step == (Len(string) \div 32) + 1
    IN  LimbMod997(HashFold(Limbs(Len(string)), string,
                            HashIndices(Len(string), step)))

(***************************************************************************)
(* The reference hash of the specification, on bit vectors (least          *)
(* significant bit first) of RefWidth bits: wide enough that               *)
(* (acc<<5)+(acc>>2)+byte never overflows for acc < 2^32.                  *)
(***************************************************************************)
RefWidth == 32 + 8

RECURSIVE RefBits(_, _)
RefBits(n, w) == IF w = 0 THEN <<>> ELSE <<n % 2>> \o RefBits(n \div 2, w - 1)

\* SubSeq turns the function into an explicit tuple, evaluated once
RefVec(f) == SubSeq(f, 1, RefWidth)

RefShl(b, k) == RefVec([p \in 1..RefWidth |-> IF p <= k THEN 0 ELSE b[p - k]])

RefShr(b, k) == RefVec([p \in 1..RefWidth |-> IF p + k <= RefWidth THEN b[p + k] ELSE 0])

RECURSIVE RefAddFrom(_, _, _, _)
\* bits p.. of a + b, given the carry into bit p
RefAddFrom(a, b, p, carry) ==
    IF p > RefWidth THEN <<>>
    ELSE <<(a[p] + b[p] + carry) % 2>>
         \o RefAddFrom(a, b, p + 1, (a[p] + b[p] + carry) \div 2)

RefAdd(a, b) == RefAddFrom(a, b, 1, 0)

RefXor(a, b) == RefVec([p \in 1..RefWidth |-> (a[p] + b[p]) % 2])

RefMod2p32(b) == RefVec([p \in 1..RefWidth |-> IF p <= 32 THEN b[p] ELSE 0])

RECURSIVE RefModBuckets(_, _)
\* the value of bits p..RefWidth of b, modulo the bucket count
RefModBuckets(b, p) ==
    IF p > RefWidth THEN 0 ELSE (b[p] + 2 * RefModBuckets(b, p + 1)) % HASH_SIZE

RefStep(acc, byte) ==
    RefMod2p32(RefXor(acc,
        RefAdd(RefAdd(RefShl(acc, 5), RefShr(acc, 2)), RefBits(byte, RefWidth))))

RECURSIVE RefWalk(_, _, _, _)
RefWalk(acc, name, p, step) ==
    IF p < step \/ acc[RefWidth] # 0 THEN acc
    ELSE RefWalk(RefStep(acc, name[p]), name, p - step, step)

RefHash(name) ==
    RefModBuckets(
        RefWalk(RefBits(Len(name), RefWidth), name, Len(name), (Len(name) \div 32) + 1),
        1)

(***************************************************************************)
(* v2/util.rs: the Huffman name codec.                                     *)
(*                                                                         *)
(* A Tree is a record with the fields of struct Tree; an Option<Box<Tree>> *)
(* is <<>> (None) or <<t>> (Some).  A HashMap is a function on its keys.   *)
(* Keys and patterns are u32 in the code; the dictionaries and streams of  *)
(* the model keep every key and pattern below 2^31.                        *)
(***************************************************************************)
LEAF == 128

HuffmanTreeEntry(node_type, value) == [node_type |-> node_type, value |-> value]

\* util.rs c_char_count: how often each byte occurs in the names
RECURSIVE CountIn(_, _)
CountIn(string, char) ==
    IF string = <<>> THEN 0
    ELSE (IF Head(string) = char THEN 1 ELSE 0) + CountIn(Tail(string), char)

c_char_count(names) ==
    LET all == Flatten(names)
    IN  [char \in Range(all) |-> CountIn(all, char)]

LeafTree(character, count) ==
    [huffman_tree_entry |-> HuffmanTreeEntry(LEAF, character),
     frequency |-> count, left_node |-> <<>>, right_node |-> <<>>]

BranchTree(internal_node_id, left_tree, right_tree) ==
    [huffman_tree_entry |-> HuffmanTreeEntry(0, internal_node_id),
     frequency |-> left_tree.frequency + right_tree.frequency,
     left_node |-> <<left_tree>>, right_node |-> <<right_tree>>]

\* trees.sort_unstable_by(descending frequency); trees.pop(): any tree of the
\* lowest frequency may be last (the initial order is that of a HashMap and
\* the sort is unstable)
LowestFrequency(trees) ==
    {t \in trees : \A u \in trees : t.frequency <= u.frequency}

\* <<left_tree, right_tree>>: the two trees popped
PopChoices(trees) ==
    {pair \in trees \X trees :
        /\ pair[1] \in LowestFrequency(trees)
        /\ pair[2] \in LowestFrequency(trees \ {pair[1]})}

RECURSIVE MergeTrees(_, _)
\* the loop `while trees.len() != 1`: the set of trees it can end with
MergeTrees(trees, internal_node_id) ==
    IF Cardinality(trees) = 1 THEN trees
    ELSE UNION {MergeTrees((trees \ {pair[1], pair[2]})
                              \cup {BranchTree(internal_node_id, pair[1], pair[2])},
                           internal_node_id + 1) : pair \in PopChoices(trees)}

RECURSIVE serialize(_)
serialize(tree) ==
    <<tree.huffman_tree_entry.value, tree.huffman_tree_entry.node_type>>
    \o (IF tree.huffman_tree_entry.node_type = 0
        THEN serialize(tree.left_node[1]) \o serialize(tree.right_node[1])
        ELSE <<>>)

\* index_map.get(&(value, node_type)): the last entry inserted under the key,
\* its index cut to a u8
IndexMapGet(serialized, value, node_type) ==
    LET hits == {i \in 0..((Len(serialized) \div 2) - 1) :
                    /\ serialized[2 * i + 1] = value
                    /\ serialized[2 * i + 2] = node_type}
    IN  (CHOOSE i \in hits : \A j \in hits : j <= i) % 256

\* set_internal_node_values with the index of the left child
RECURSIVE set_internal_node_values_left(_, _)
set_internal_node_values_left(tree, serialized) ==
    IF tree.huffman_tree_entry.node_type = 0
    THEN [tree EXCEPT
            !.huffman_tree_entry.value =
                IndexMapGet(serialized,
                            tree.left_node[1].huffman_tree_entry.value,
                            tree.left_node[1].huffman_tree_entry.node_type),
            !.left_node = <<set_internal_node_values_left(tree.left_node[1], serialized)>>,
            !.right_node = <<set_internal_node_values_left(tree.right_node[1], serialized)>>]
    ELSE tree

RECURSIVE set_internal_node_values(_, _)
set_internal_node_values(tree, serialized) ==
    IF tree.huffman_tree_entry.node_type = 0
    THEN [tree EXCEPT
            !.huffman_tree_entry.value =
                IndexMapGet(serialized,
                            tree.right_node[1].huffman_tree_entry.value,
                            tree.right_node[1].huffman_tree_entry.node_type),
            !.left_node = <<set_internal_node_values(tree.left_node[1], serialized)>>,
            !.right_node = <<set_internal_node_values(tree.right_node[1], serialized)>>]
    ELSE tree

\* create_huffman_tree: the set of byte vectors it can return; empty when it
\* panics (no character at all: trees.pop() on an empty vector)
create_huffman_tree(names) ==
    LET character_count == c_char_count(names)
        trees == {LeafTree(c, character_count[c]) : c \in DOMAIN character_count}
    IN  IF trees = {} THEN {}
        ELSE {serialize(set_internal_node_values(tree, serialize(tree))) :
                tree \in MergeTrees(trees, 0)}

\* v2/structs/huffman_tree_entry.rs from_bytes, over the whole vector
TreeEntries(bytes) ==
    [i \in 1..(Len(bytes) \div 2) |->
        HuffmanTreeEntry(bytes[2 * i], bytes[2 * i - 1])]

\* huffman_tree_to_map: <<the map filled, the entries left in the deque>>
RECURSIVE huffman_tree_to_map(_, _)
huffman_tree_to_map(tree, key) ==
    IF tree = <<>> THEN << <<>>, <<>> >>
    ELSE IF Head(tree).node_type = LEAF
         THEN <<(key :> Head(tree).value), Tail(tree)>>
         ELSE LET left == huffman_tree_to_map(Tail(tree), (key * 2) + 1)
                  right == huffman_tree_to_map(left[2], key * 2)
              IN  <<right[1] @@ left[1], right[2]>>

HuffmanTreeMap(bytes) == huffman_tree_to_map(TreeEntries(bytes), 1)[1]

\* v2/mod.rs: huffman_tree_map.into_iter().map(|(k, v)| (v, k)).collect()
EncodingMap(map) ==
    [v \in Range(map) |-> CHOOSE k \in DOMAIN map : map[k] = v]

\* the bits of an encoded value after its leading 1, most significant first
RECURSIVE ValueBits(_)
ValueBits(value) ==
    IF value <= 1 THEN <<>> ELSE ValueBits(value \div 2) \o <<value % 2>>

\* util.rs u8_from_bits: the first 8 bits, most significant first, 0 when
\* the deque has run out
RECURSIVE u8_from_bits(_, _, _)
u8_from_bits(bits, n, byte) ==
    IF n = 0 THEN byte
    ELSE u8_from_bits(IF bits = <<>> THEN <<>> ELSE Tail(bits), n - 1,
                      (byte * 2) + (IF bits # <<>> /\ Head(bits) = 1 THEN 1 ELSE 0))

RECURSIVE ReverseBitsN(_, _)
ReverseBitsN(byte, n) ==
    IF n = 0 THEN 0
    ELSE ((byte % 2) * Pow2(n - 1)) + ReverseBitsN(byte \div 2, n - 1)

reverse_bits(byte) == ReverseBitsN(byte, 8)

RECURSIVE PackBits(_)
PackBits(bits) ==
    IF bits = <<>> THEN <<>>
    ELSE <<reverse_bits(u8_from_bits(bits, 8, 0))>>
         \o PackBits(IF Len(bits) <= 8 THEN <<>> ELSE SubSeq(bits, 9, Len(bits)))

huffman_encode(data, map) ==
    LET values == [i \in 1..Len(data) |->
                      IF data[i] \in DOMAIN map THEN ValueBits(map[data[i]]) ELSE <<>>]
    IN  PackBits(Flatten(values))

\* the bits of the bytes, least significant bit of each byte first
DataBits(data) ==
    [i \in 1..(8 * Len(data)) |->
        (data[((i - 1) \div 8) + 1] \div Pow2((i - 1) % 8)) % 2]

RECURSIVE DecodeBits(_, _, _, _)
DecodeBits(bits, map, pattern, result) ==
    IF bits = <<>> \/ Len(result) < 0 THEN result
    ELSE LET next == (pattern * 2) + Head(bits)
         IN  IF next \in DOMAIN map
             THEN DecodeBits(Tail(bits), map, 1, Append(result, map[next]))
             ELSE DecodeBits(Tail(bits), map, next, result)

\* result.truncate(decoded_size)
Truncate(result, size) == SubSeq(result, 1, Min(Len(result), size))

huffman_decode(data, map, decoded_size) ==
    Truncate(DecodeBits(SubSeq(DataBits(data), 1, 8 * Len(data)), map, 1, <<>>),
             decoded_size)

(***************************************************************************)
(* The reader (archive_reader.rs, formats/bfs2004a, formats/bfs2004b).     *)
(*                                                                         *)
(* A stream is [len, segs]: its length in bytes and the segments of it     *)
(* that hold data, each [at, data]; every other byte below len is zero.    *)
(* The u32 values of the streams examined here are all below 2^31.         *)
(***************************************************************************)
MAGIC == 829646690
VERSION == 537134341

\* the result of a read that met the end of the stream
EOF == -1
\* calculate_metadata_count: the subtraction overflowed and panicked
PANIC == -1
\* calculate_metadata_count: the subtraction overflowed and wrapped
WRAPPED == -2

BRANCH == 0

Max(S) == CHOOSE x \in S : \A y \in S : y <= x

StreamByte(stream, offset) ==
    LET hits == {i \in DOMAIN stream.segs :
                    /\ stream.segs[i].at <= offset
                    /\ offset < stream.segs[i].at + Len(stream.segs[i].data)}
    IN  IF hits = {} THEN 0
        ELSE LET i == Max(hits)
             IN  stream.segs[i].data[(offset - stream.segs[i].at) + 1]

RECURSIVE LeValue(_, _, _)
LeValue(stream, pos, n) ==
    IF n = 0 THEN 0
    ELSE StreamByte(stream, pos) + (256 * LeValue(stream, pos + 1, n - 1))

\* u32::read_le and the like: n bytes at pos, little endian
ReadLe(stream, pos, n) ==
    IF pos + n > stream.len THEN EOF ELSE LeValue(stream, pos, n)

\* the outcome of reading a part of the archive
Parsed(val) == [kind |-> "Ok", val |-> val]
Failed(kind) == [kind |-> kind, val |-> <<>>]

\* Body applied to what `part` parsed, or the failure of `part`
Then(part, Body(_)) == Bind(part, LAMBDA p : IF p.kind # "Ok" THEN p ELSE Body(p.val))

\* #[br(count = count)] on a Vec of integers of `size` bytes each
ReadTable(stream, pos, count, size) ==
    Bind(count, LAMBDA n :
        IF n = PANIC THEN Failed("Panic")
        ELSE IF n = WRAPPED \/ n > stream.len \/ pos + (n * size) > stream.len
        THEN Failed("Eof")
        ELSE Parsed([i \in 1..n |-> LeValue(stream, pos + ((i - 1) * size), size)]))

\* ArchiveHeader: magic, version, header_end, file_count
ArchiveHeaderRead(stream) ==
    IF stream.len < 16 THEN Failed("Eof")
    ELSE Parsed([magic |-> LeValue(stream, 0, 4),
                 version |-> LeValue(stream, 4, 4),
                 header_end |-> LeValue(stream, 8, 4),
                 file_count |-> LeValue(stream, 12, 4)])

\* bfs2004a HashTable: hash_size, then hash_size entries of two u16
HashTableRead2004a(stream, pos) ==
    LET hash_size == ReadLe(stream, pos, 4)
    IN  IF hash_size = EOF \/ hash_size > stream.len
           \/ pos + 4 + (hash_size * 4) > stream.len THEN Failed("Eof")
        ELSE Parsed([hash_size |-> hash_size, entries_len |-> hash_size])

\* bfs2004b HashTable: hash_size, then hash_size entries of two u32
HashTableRead2004b(stream, pos) ==
    LET hash_size == ReadLe(stream, pos, 4)
    IN  IF hash_size = EOF \/ hash_size > stream.len
           \/ pos + 4 + (hash_size * 8) > stream.len THEN Failed("Eof")
        ELSE Parsed([hash_size |-> hash_size, entries_len |-> hash_size])

calculate_metadata_start(hash_table) == (hash_table.entries_len * 8) + 20

MetadataHeaderRead(stream, pos) ==
    IF pos + 20 > stream.len THEN Failed("Eof")
    ELSE Parsed([file_headers_offset |-> LeValue(stream, pos, 4),
                 file_name_offset_table_offset |-> LeValue(stream, pos + 4, 4),
                 file_name_length_table_offset |-> LeValue(stream, pos + 8, 4),
                 huffman_dictionary_offset |-> LeValue(stream, pos + 12, 4),
                 huffman_data_offset |-> LeValue(stream, pos + 16, 4)])

\* offsets.sort(): position i holds the value with fewer than i values
\* below it and at least i values not above it
SortOffsets(s) ==
    [i \in DOMAIN s |->
        CHOOSE v \in Range(s) :
            /\ Cardinality({j \in DOMAIN s : s[j] < v}) < i
            /\ i <= Cardinality({j \in DOMAIN s : s[j] <= v})]

\* calculate_metadata_count that takes every table for a table of bytes
calculate_metadata_count_bytes(wanted_start, metadata_header, header_end, metadata_start, overflow_checks) ==
    Bind(SortOffsets(<<header_end,
                       metadata_header.file_headers_offset + metadata_start,
                       metadata_header.file_name_offset_table_offset + metadata_start,
                       metadata_header.file_name_length_table_offset + metadata_start,
                       metadata_header.huffman_dictionary_offset + metadata_start,
                       metadata_header.huffman_data_offset + metadata_start>>),
         LAMBDA offsets :
            Bind({i \in 1..5 : offsets[i] = wanted_start + metadata_start}, LAMBDA hits :
                IF hits = {} THEN 0
                ELSE offsets[Max(hits) + 1] - (wanted_start + metadata_start)))

\* The number of entries of the table that starts at wanted_start: the
\* distance to the next larger offset, divided by the entry size.  The
\* subtraction is on u32: when it overflows, a build with overflow checks
\* panics and a build without them wraps.
calculate_metadata_count(wanted_start, metadata_header, header_end, metadata_start, overflow_checks) ==
    LET corrected_header ==
            [f \in DOMAIN metadata_header |-> metadata_header[f] + metadata_start]
        corrected_wanted_start == wanted_start + metadata_start
        divisor ==
            IF corrected_wanted_start = corrected_header.file_name_offset_table_offset
            THEN 4
            ELSE IF \/ corrected_wanted_start
                          = corrected_header.file_name_length_table_offset
                    \/ corrected_wanted_start = corrected_header.huffman_dictionary_offset
            THEN 2
            ELSE IF corrected_wanted_start = corrected_header.huffman_data_offset
            THEN 1
            ELSE 0
    IN  Bind(SortOffsets(<<header_end,
                           corrected_header.file_headers_offset,
                           corrected_header.file_name_offset_table_offset,
                           corrected_header.file_name_length_table_offset,
                           corrected_header.huffman_dictionary_offset,
                           corrected_header.huffman_data_offset>>),
             LAMBDA offsets :
                LET hits == {i \in 1..5 : offsets[i] = corrected_wanted_start}
                    wanted_end == IF hits = {} THEN 0 ELSE offsets[Max(hits) + 1]
                IN  IF divisor = 0 THEN 0
                    ELSE IF wanted_end < corrected_wanted_start
                    THEN (IF overflow_checks THEN PANIC ELSE WRAPPED)
                    ELSE (wanted_end - corrected_wanted_start) \div divisor)

\* The serialized dictionary: entries of two bytes, node type first.  A
\* node type other than 0x00 and 0x80 matches no variant of
\* HuffmanDictNodeType; the first entry that fails decides the error.
SerializedHuffmanDictRead(stream, pos, count) ==
    Bind(count, LAMBDA n :
        IF n = PANIC THEN Failed("Panic")
        ELSE LET available == IF pos > stream.len THEN 0 ELSE (stream.len - pos) \div 2
                 wanted == IF n = WRAPPED THEN available + 1 ELSE n
                 bad == {i \in 1..Min(wanted, available) :
                            StreamByte(stream, pos + (2 * (i - 1))) \notin {BRANCH, LEAF}}
             IN  IF bad # {} THEN Failed("NoVariantMatch")
                 ELSE IF wanted > available THEN Failed("Eof")
                 ELSE Parsed([i \in 1..wanted |->
                                [node_type |-> StreamByte(stream, pos + (2 * (i - 1))),
                                 value |-> StreamByte(stream, pos + (2 * (i - 1)) + 1)]]))

\* bfs2004b FileHeader at pos: 24 bytes and one u32 for every copy
FileHeaderRead2004b(stream, pos) ==
    IF pos + 24 + (4 * StreamByte(stream, pos + 1)) > stream.len THEN Failed("Eof")
    ELSE Parsed([flags |-> StreamByte(stream, pos),
                 file_copies |-> StreamByte(stream, pos + 1),
                 data_offset |-> LeValue(stream, pos + 4, 4),
                 unpacked_size |-> LeValue(stream, pos + 8, 4),
                 packed_size |-> LeValue(stream, pos + 12, 4),
                 crc32 |-> LeValue(stream, pos + 16, 4),
                 folder_id |-> LeValue(stream, pos + 20, 2),
                 file_id |-> LeValue(stream, pos + 22, 2),
                 file_copies_offsets |->
                     [i \in 1..StreamByte(stream, pos + 1) |->
                         LeValue(stream, pos + 24 + (4 * (i - 1)), 4)],
                 byte_count |-> 24 + (4 * StreamByte(stream, pos + 1))])

\* from_utf8_lossy on bytes: a byte that is not ASCII becomes U+FFFD
from_utf8_lossy(bytes) ==
    [i \in 1..Len(bytes) |-> IF bytes[i] < 128 THEN bytes[i] ELSE 65533]

\* bfs2004a FileHeader at pos: 22 bytes, the name, one u32 for every copy
FileHeaderRead2004a(stream, pos) ==
    IF pos + 22 > stream.len THEN Failed("Eof")
    ELSE LET file_copies == StreamByte(stream, pos + 1)
             file_name_length == LeValue(stream, pos + 20, 2)
             size == 22 + file_name_length + (4 * file_copies)
         IN  IF pos + size > stream.len THEN Failed("Eof")
             ELSE Parsed([flags |-> StreamByte(stream, pos),
                          file_copies |-> file_copies,
                          data_offset |-> LeValue(stream, pos + 4, 4),
                          unpacked_size |-> LeValue(stream, pos + 8, 4),
                          packed_size |-> LeValue(stream, pos + 12, 4),
                          crc32 |-> LeValue(stream, pos + 16, 4),
                          file_name_length |-> file_name_length,
                          file_name |-> from_utf8_lossy(
                              [i \in 1..file_name_length |->
                                  StreamByte(stream, pos + 21 + i)]),
                          file_copies_offsets |->
                              [i \in 1..file_copies |->
                                  LeValue(stream,
                                          pos + 22 + file_name_length + (4 * (i - 1)), 4)],
                          byte_count |-> size])

\* #[br(count = file_count)] on Vec<FileHeader>
RECURSIVE FileHeadersRead(_, _, _, _, _)
FileHeadersRead(stream, pos, count, format, read) ==
    IF Len(read) = count THEN Parsed(read)
    ELSE Bind(IF format = "Bfs2004a" THEN FileHeaderRead2004a(stream, pos)
              ELSE FileHeaderRead2004b(stream, pos),
              LAMBDA header :
                 IF header.kind # "Ok" THEN header
                 ELSE Bind(<<pos + header.val.byte_count, Append(read, header.val)>>,
                           LAMBDA next :
                              FileHeadersRead(stream, next[1], count, format, next[2])))

\* RawArchive::read for Bfs2004b: the fields in their order of declaration,
\* each table sought by its offset and counted by calculate_metadata_count.
\* The result is [kind, val]: kind "Ok" with the archive, or the failure.
RawArchiveRead2004b(stream, overflow_checks) ==
    Then(ArchiveHeaderRead(stream), LAMBDA archive_header :
    Then(HashTableRead2004b(stream, 16), LAMBDA hash_table :
    Bind(calculate_metadata_start(hash_table), LAMBDA metadata_start :
    Then(MetadataHeaderRead(stream, metadata_start), LAMBDA metadata_header :
    Then(ReadTable(stream,
                   metadata_start + metadata_header.file_name_offset_table_offset,
                   calculate_metadata_count(
                       metadata_header.file_name_offset_table_offset, metadata_header,
                       archive_header.header_end, metadata_start, overflow_checks),
                   4), LAMBDA file_name_offset_table :
    Then(ReadTable(stream,
                   metadata_start + metadata_header.file_name_length_table_offset,
                   calculate_metadata_count(
                       metadata_header.file_name_length_table_offset, metadata_header,
                       archive_header.header_end, metadata_start, overflow_checks),
                   2), LAMBDA file_name_length_table :
    Then(SerializedHuffmanDictRead(
             stream, metadata_start + metadata_header.huffman_dictionary_offset,
             calculate_metadata_count(
                 metadata_header.huffman_dictionary_offset, metadata_header,
                 archive_header.header_end, metadata_start, overflow_checks)),
         LAMBDA serialized_huffman_dict :
    Then(ReadTable(stream, metadata_start + metadata_header.huffman_data_offset,
                   calculate_metadata_count(
                       metadata_header.huffman_data_offset, metadata_header,
                       archive_header.header_end, metadata_start, overflow_checks),
                   1), LAMBDA encoded_huffman_data :
    Then(IF archive_header.file_count > stream.len THEN Failed("Eof")
         ELSE FileHeadersRead(stream,
                              metadata_start + metadata_header.file_headers_offset,
                              archive_header.file_count, "Bfs2004b", <<>>),
         LAMBDA file_headers :
    Parsed([archive_header |-> archive_header,
            hash_table |-> hash_table,
            metadata_header |-> metadata_header,
            file_name_offset_table |-> file_name_offset_table,
            file_name_length_table |-> file_name_length_table,
            serialized_huffman_dict |-> serialized_huffman_dict,
            encoded_huffman_data |-> encoded_huffman_data,
            file_headers |-> file_headers]))))))))))

\* RawArchive::read for Bfs2004a: header, file header offsets, hash table
\* (entries of two u16), file headers.
RawArchiveRead2004a(stream) ==
    Then(ArchiveHeaderRead(stream), LAMBDA archive_header :
    Then(ReadTable(stream, 16, archive_header.file_count, 4),
         LAMBDA file_header_offsets :
    Then(HashTableRead2004a(stream, 16 + (4 * archive_header.file_count)),
         LAMBDA hash_table :
    Then(FileHeadersRead(stream,
                         16 + (4 * archive_header.file_count) + 4
                            + (4 * hash_table.entries_len),
                         archive_header.file_count, "Bfs2004a", <<>>),
         LAMBDA file_headers :
    Parsed([archive_header |-> archive_header,
            file_header_offsets |-> file_header_offsets,
            hash_table |-> hash_table,
            file_headers |-> file_headers])))))

\* HuffmanDict::insert
DictInsert(dict, key, value) == (key :> value) @@ dict

\* deserialize_huffman_dict: the queue is a stack of (key, position); a
\* branch pushes its left child (the next entry) and then its right child
\* (the entry its value names), a leaf adds key -> value.  position + 1 is
\* on u8.  One turn of `while let Some(queued_item) = deserialize_queue.pop()`
\* on the walk [queue, result, kind]:
DeserializeSingle(serialized, walk, overflow_checks) ==
    LET key == walk.queue[Len(walk.queue)][1]
        position == walk.queue[Len(walk.queue)][2]
        rest == SubSeq(walk.queue, 1, Len(walk.queue) - 1)
    IN  IF position >= Len(serialized)
        THEN [walk EXCEPT !.queue = rest]
        ELSE IF serialized[position + 1].node_type = BRANCH
        THEN IF position = 255 /\ overflow_checks
             THEN [walk EXCEPT !.kind = "Panic"]
             ELSE [walk EXCEPT !.queue = rest \o <<<<(key * 2) + 1, (position + 1) % 256>>,
                                                  <<key * 2, serialized[position + 1].value>>>>]
        ELSE [walk EXCEPT !.queue = rest,
                          !.result = DictInsert(walk.result, key,
                                                serialized[position + 1].value)]

\* up to `steps` turns of the loop, as long as the queue is not empty
RECURSIVE DeserializeRun(_, _, _, _)
DeserializeRun(serialized, walk, steps, overflow_checks) ==
    IF steps = 0 \/ walk.queue = <<>> \/ walk.kind = "Panic" THEN walk
    ELSE IF steps = 1 THEN DeserializeSingle(serialized, walk, overflow_checks)
    ELSE Bind(DeserializeRun(serialized, walk, steps \div 2, overflow_checks), LAMBDA half :
            DeserializeRun(serialized, half, steps - (steps \div 2), overflow_checks))

\* The walk from a queue.  `steps` bounds the walk; a walk that has not
\* emptied the queue by then is "Hang".
DeserializeQueue(serialized, queue, result, steps, overflow_checks) ==
    Bind(DeserializeRun(serialized, [queue |-> queue, result |-> result, kind |-> "Run"],
                        steps, overflow_checks),
         LAMBDA walk :
            IF walk.kind = "Panic" THEN [kind |-> "Panic", val |-> walk.result]
            ELSE IF walk.queue = <<>> THEN [kind |-> "Ok", val |-> walk.result]
            ELSE [kind |-> "Hang", val |-> walk.result])

\* deserialize_huffman_dict with the root at key 0
deserialize_huffman_dict_root_zero(serialized, steps, overflow_checks) ==
    DeserializeQueue(serialized, <<<<0, 0>>>>, <<>>, steps, overflow_checks)

deserialize_huffman_dict(serialized, steps, overflow_checks) ==
    DeserializeQueue(serialized, <<<<1, 0>>>>, <<>>, steps, overflow_checks)

\* decode_huffman_data: bits least significant first, at most data_length
\* decoded bytes
RECURSIVE DecodeNameBits(_, _, _, _, _)
DecodeNameBits(bits, dict, pattern, decoded, data_length) ==
    IF bits = <<>> \/ Len(decoded) = data_length THEN decoded
    ELSE LET next == (pattern * 2) + Head(bits)
         IN  IF next \in DOMAIN dict
             THEN DecodeNameBits(Tail(bits), dict, 1, Append(decoded, dict[next]),
                                 data_length)
             ELSE DecodeNameBits(Tail(bits), dict, next, decoded, data_length)

\* decode_huffman_data that takes the bits of a byte most significant first
decode_huffman_data_msb_first(encoded_data, dict, data_length) ==
    DecodeNameBits([i \in 1..(8 * Len(encoded_data)) |->
                       (encoded_data[((i - 1) \div 8) + 1] \div Pow2(7 - ((i - 1) % 8))) % 2],
                   dict, 1, <<>>, data_length)

decode_huffman_data(encoded_data, dict, data_length) ==
    DecodeNameBits(SubSeq(DataBits(encoded_data), 1, 8 * Len(encoded_data)),
                   dict, 1, <<>>, data_length)

\* the slice of the Huffman data that holds name i: from its offset to the
\* next offset, or to the end for the last offset
NameSliceStart(file_name_offset_table, i) == file_name_offset_table[i]
NameSliceEnd(file_name_offset_table, encoded_huffman_data, i) ==
    IF i < Len(file_name_offset_table) THEN file_name_offset_table[i + 1]
    ELSE Len(encoded_huffman_data)

\* &encoded_huffman_data[start..end] panics
SlicePanics(data, start, end) == start > end \/ end > Len(data)

\* decode_all_names: one name for every (offset, length) pair
decode_all_names(file_name_offset_table, file_name_length_table, serialized_huffman_dict, encoded_huffman_data, steps, overflow_checks) ==
    Bind(deserialize_huffman_dict(serialized_huffman_dict, steps, overflow_checks),
         LAMBDA dict :
    LET names == 1..Min(Len(file_name_offset_table), Len(file_name_length_table))
    IN  IF dict.kind # "Ok" THEN [kind |-> dict.kind, val |-> <<>>]
        ELSE IF \E i \in names :
                   SlicePanics(encoded_huffman_data,
                               NameSliceStart(file_name_offset_table, i),
                               NameSliceEnd(file_name_offset_table,
                                            encoded_huffman_data, i))
        THEN Failed("Panic")
        ELSE Parsed([i \in names |->
                from_utf8_lossy(decode_huffman_data(
                    SubSeq(encoded_huffman_data,
                           NameSliceStart(file_name_offset_table, i) + 1,
                           NameSliceEnd(file_name_offset_table, encoded_huffman_data, i)),
                    dict.val, file_name_length_table[i]))]))

\* ReadError and the other ways read_archive can end; expected and got are
\* zero where the error carries none
Outcome(kind, expected, got) == [kind |-> kind, expected |-> expected, got |-> got]

\* From<binrw::Error> for ReadError: Error::Io becomes IoError, every other
\* error ParsingError.  binrw reports the end of the stream inside a derived
\* struct as Error::Io or as that error wrapped with the field's context,
\* depending on its version, so both conversions are possible.
ReadErrorKinds(kind) ==
    IF kind = "Eof" THEN {"IoError", "ParsingError"}
    ELSE IF kind = "NoVariantMatch" THEN {"ParsingError"}
    ELSE {kind}

\* check_archive of bfs2004a and bfs2004b: magic, then version, then the
\* hash size, which bfs2004a keeps behind the file header offsets
HashSizeOffset(format, archive_header) ==
    IF format = "Bfs2004a" THEN 16 + (archive_header.file_count * 4) ELSE 16

\* check_archive with the version compared before the magic
check_archive_version_first(format, stream) ==
    LET archive_header == ArchiveHeaderRead(stream)
        hash_size == ReadLe(stream, HashSizeOffset(format, archive_header.val), 4)
    IN  IF archive_header.kind # "Ok"
        THEN {Outcome(k, 0, 0) : k \in ReadErrorKinds(archive_header.kind)}
        ELSE IF archive_header.val.version # VERSION
        THEN {Outcome("InvalidVersion", VERSION, archive_header.val.version)}
        ELSE IF archive_header.val.magic # MAGIC
        THEN {Outcome("InvalidMagic", MAGIC, archive_header.val.magic)}
        ELSE IF hash_size = EOF
        THEN {Outcome("IoError", 0, 0)}
        ELSE IF hash_size # HASH_SIZE
        THEN {Outcome("InvalidHashSize", HASH_SIZE, hash_size)}
        ELSE {Outcome("Ok", 0, 0)}

check_archive(format, stream) ==
    LET archive_header == ArchiveHeaderRead(stream)
        hash_size == ReadLe(stream, HashSizeOffset(format, archive_header.val), 4)
    IN  IF archive_header.kind # "Ok"
        THEN {Outcome(k, 0, 0) : k \in ReadErrorKinds(archive_header.kind)}
        ELSE IF archive_header.val.magic # MAGIC
        THEN {Outcome("InvalidMagic", MAGIC, archive_header.val.magic)}
        ELSE IF archive_header.val.version # VERSION
        THEN {Outcome("InvalidVersion", VERSION, archive_header.val.version)}
        ELSE IF hash_size = EOF
        THEN {Outcome("IoError", 0, 0)}
        ELSE IF hash_size # HASH_SIZE
        THEN {Outcome("InvalidHashSize", HASH_SIZE, hash_size)}
        ELSE {Outcome("Ok", 0, 0)}

NoReader == [raw_archive |-> <<>>, decoded_names |-> <<>>]

\* the part of read_archive after the check: RawArchive::read and, for
\* Bfs2004b, decode_all_names.  A set of [outcome, reader].
ReadRawArchive(stream, format, steps, overflow_checks) ==
    Bind(IF format = "Bfs2004a" THEN RawArchiveRead2004a(stream)
         ELSE RawArchiveRead2004b(stream, overflow_checks),
         LAMBDA raw_archive :
    IF raw_archive.kind # "Ok"
    THEN {[outcome |-> Outcome(k, 0, 0), reader |-> NoReader] :
             k \in ReadErrorKinds(raw_archive.kind)}
    ELSE Bind(IF format = "Bfs2004a" THEN Parsed(<<>>)
              ELSE decode_all_names(raw_archive.val.file_name_offset_table,
                                    raw_archive.val.file_name_length_table,
                                    raw_archive.val.serialized_huffman_dict,
                                    raw_archive.val.encoded_huffman_data,
                                    steps, overflow_checks),
              LAMBDA decoded_names :
         IF decoded_names.kind # "Ok"
         THEN {[outcome |-> Outcome(decoded_names.kind, 0, 0), reader |-> NoReader]}
         ELSE {[outcome |-> Outcome("Reader", 0, 0),
                reader |-> [raw_archive |-> raw_archive.val,
                            decoded_names |-> decoded_names.val]]}))

\* read_archive that runs the check whatever `force` is
read_archive_always_checks(stream, format, force, steps, overflow_checks) ==
    IF format \notin {"Bfs2004a", "Bfs2004b"}
    THEN {[outcome |-> Outcome("Panic", 0, 0), reader |-> NoReader]}
    ELSE LET checked == check_archive(format, stream)
         IN  {[outcome |-> c, reader |-> NoReader] : c \in {d \in checked : d.kind # "Ok"}}
             \cup (IF Outcome("Ok", 0, 0) \in checked
                   THEN ReadRawArchive(stream, format, steps, overflow_checks)
                   ELSE {})

\* read_archive: formats other than Bfs2004a and Bfs2004b reach todo!()
read_archive(stream, format, force, steps, overflow_checks) ==
    IF format \notin {"Bfs2004a", "Bfs2004b"}
    THEN {[outcome |-> Outcome("Panic", 0, 0), reader |-> NoReader]}
    ELSE LET checked == IF force THEN {Outcome("Ok", 0, 0)}
                        ELSE check_archive(format, stream)
         IN  {[outcome |-> c, reader |-> NoReader] : c \in {d \in checked : d.kind # "Ok"}}
             \cup (IF Outcome("Ok", 0, 0) \in checked
                   THEN ReadRawArchive(stream, format, steps, overflow_checks)
                   ELSE {})

\* bfs2004b file_header_to_name: folder name, "/", file name; the indices
\* are into decoded_names
NameIndexPanics(decoded_names, file_header) ==
    \/ file_header.folder_id >= Len(decoded_names)
    \/ file_header.file_id >= Len(decoded_names)

file_header_to_name(decoded_names, file_header) ==
    decoded_names[file_header.folder_id + 1] \o <<47>>
        \o decoded_names[file_header.file_id + 1]

\* ArchiveReader::file_names of bfs2004a and bfs2004b
file_names(format, reader) ==
    IF format = "Bfs2004a"
    THEN Parsed([i \in DOMAIN reader.raw_archive.file_headers |->
                    reader.raw_archive.file_headers[i].file_name])
    ELSE IF \E i \in DOMAIN reader.raw_archive.file_headers :
                NameIndexPanics(reader.decoded_names, reader.raw_archive.file_headers[i])
    THEN Failed("Panic")
    ELSE Parsed([i \in DOMAIN reader.raw_archive.file_headers |->
                    file_header_to_name(reader.decoded_names,
                                        reader.raw_archive.file_headers[i])])

(***************************************************************************)
(* ArchivedFileInfo and the calls of ArchiveReader that return it.  An     *)
(* Option is a sequence of at most one element.                            *)
(***************************************************************************)
\* From<&FileHeader> for ArchivedFileInfo with every hash reported
ArchivedFileInfoFrom_hash_always(format, file_header) ==
    [offset |-> file_header.data_offset,
     compression_method |->
         IF BitAnd(file_header.flags, 1) = 1
         THEN (IF format = "Bfs2004b" /\ BitAnd(file_header.flags, 8) = 8
               THEN "Zstd" ELSE "Zlib")
         ELSE "None",
     size |-> file_header.unpacked_size,
     compressed_size |-> file_header.packed_size,
     copies |-> file_header.file_copies,
     hash |-> <<file_header.crc32>>]

\* From<&FileHeader> for ArchivedFileInfo, of bfs2004a and of bfs2004b; the
\* second tells Zstandard by the flag 0x08
ArchivedFileInfoFrom(format, file_header) ==
    [offset |-> file_header.data_offset,
     compression_method |->
         IF BitAnd(file_header.flags, 1) = 1
         THEN (IF format = "Bfs2004b" /\ BitAnd(file_header.flags, 8) = 8
               THEN "Zstd" ELSE "Zlib")
         ELSE "None",
     size |-> file_header.unpacked_size,
     compressed_size |-> file_header.packed_size,
     copies |-> file_header.file_copies,
     hash |-> IF BitAnd(file_header.flags, 4) = 4 THEN <<file_header.crc32>> ELSE <<>>]

\* the name the calls compare with: file_name of a bfs2004a header,
\* file_header_to_name of a bfs2004b header
FileHeaderName(format, reader, file_header) ==
    IF format = "Bfs2004a" THEN file_header.file_name
    ELSE file_header_to_name(reader.decoded_names, file_header)

\* file_header_to_name panics for one of the headers
AnyNameIndexPanics(format, reader) ==
    /\ format # "Bfs2004a"
    /\ \E i \in DOMAIN reader.raw_archive.file_headers :
           NameIndexPanics(reader.decoded_names, reader.raw_archive.file_headers[i])

\* file_info that stops at the first header of the name
file_info_first_only(format, reader, file_name) ==
    IF AnyNameIndexPanics(format, reader) THEN Failed("Panic")
    ELSE Bind(SelectSeq(reader.raw_archive.file_headers,
                        LAMBDA h : FileHeaderName(format, reader, h) = file_name),
              LAMBDA found :
                  Parsed([i \in 1..Min(1, Len(found)) |-> ArchivedFileInfoFrom(format, found[i])]))

\* ArchiveReader::file_info: filter_map over the file headers
file_info(format, reader, file_name) ==
    IF AnyNameIndexPanics(format, reader) THEN Failed("Panic")
    ELSE Bind(SelectSeq(reader.raw_archive.file_headers,
                        LAMBDA h : FileHeaderName(format, reader, h) = file_name),
              LAMBDA found :
                  Parsed([i \in DOMAIN found |-> ArchivedFileInfoFrom(format, found[i])]))

\* ArchiveReader::multiple_file_info: filter_map over the file headers,
\* file_names.contains(name)
multiple_file_info(format, reader, file_names_asked) ==
    IF AnyNameIndexPanics(format, reader) THEN Failed("Panic")
    ELSE Bind(SelectSeq(reader.raw_archive.file_headers,
                        LAMBDA h : FileHeaderName(format, reader, h) \in Range(file_names_asked)),
              LAMBDA found :
                  Parsed([i \in DOMAIN found |->
                             <<FileHeaderName(format, reader, found[i]),
                               ArchivedFileInfoFrom(format, found[i])>>]))

(***************************************************************************)
(* The archive builder, V2BfsFile::archive of v2/mod.rs, and what it       *)
(* calls.  Strings are sequences of bytes.  A HashMap is a function, and   *)
(* the order in which it yields its keys is a choice of the step that      *)
(* iterates it.                                                            *)
(***************************************************************************)
RECURSIVE SumSeq(_)
SumSeq(s) == IF s = <<>> THEN 0 ELSE Head(s) + SumSeq(Tail(s))

\* a < b for strings, the order of String's Ord
RECURSIVE LessStr(_, _)
LessStr(a, b) ==
    IF b = <<>> THEN FALSE
    ELSE IF a = <<>> THEN TRUE
    ELSE IF Head(a) # Head(b) THEN Head(a) < Head(b)
    ELSE LessStr(Tail(a), Tail(b))

\* the strings of the set S in ascending order
SortStrings(S) ==
    [i \in 1..Cardinality(S) |->
        CHOOSE s \in S : Cardinality({t \in S : LessStr(t, s)}) = i - 1]

\* the orders in which the elements of the set S can be listed
Orders(S) ==
    {p \in SeqOfLen(S, Cardinality(S)) : \A i, j \in DOMAIN p : p[i] = p[j] => i = j}

starts_with(string, prefix) ==
    Len(string) >= Len(prefix) /\ SubSeq(string, 1, Len(prefix)) = prefix

\* rsplit_once("/"): what is before and what is after the last "/", or
\* <<>> when the string holds none
rsplit_once(string) ==
    LET slashes == {i \in DOMAIN string : string[i] = 47}
    IN  IF slashes = {} THEN <<>>
        ELSE << SubSeq(string, 1, Max(slashes) - 1),
                SubSeq(string, Max(slashes) + 1, Len(string)) >>

\* util.rs unique_file_names: the folder and the file part of every path
unique_file_names(paths) ==
    UNION {{rsplit_once(p)[1], rsplit_once(p)[2]} : p \in {q \in paths : rsplit_once(q) # <<>>}}

RECURSIVE trim_end_slashes(_)
trim_end_slashes(string) ==
    IF string # <<>> /\ string[Len(string)] = 47
    THEN trim_end_slashes(SubSeq(string, 1, Len(string) - 1))
    ELSE string

DataPrefix == <<100, 97, 116, 97, 47>>

\* the name sanitize_file_list gives a path: the base is stripped and
\* "data/" put in front unless the name starts with it
SanitizedName(base, path) ==
    LET prefix == trim_end_slashes(base) \o <<47>>
        new_path == IF starts_with(path, prefix)
                    THEN SubSeq(path, Len(prefix) + 1, Len(path))
                    ELSE path
    IN  IF starts_with(new_path, DataPrefix) THEN new_path ELSE DataPrefix \o new_path

\* sanitize_file_list panics on a name that is not ASCII
SanitizePanics(base, paths) ==
    \E i \in DOMAIN paths :
        LET prefix == trim_end_slashes(base) \o <<47>>
            new_path == IF starts_with(paths[i], prefix)
                        THEN SubSeq(paths[i], Len(prefix) + 1, Len(paths[i]))
                        ELSE paths[i]
        IN  \E k \in DOMAIN new_path : new_path[k] >= 128

\* sanitize_file_list: the pairs (name, path) collected into a HashMap, so
\* of the paths with one name the last is kept
sanitize_file_list(base, paths) ==
    Bind([i \in DOMAIN paths |-> SanitizedName(base, paths[i])], LAMBDA names :
        [name \in Range(names) |-> paths[Max({i \in DOMAIN paths : names[i] = name})]])

\* a glob of literal bytes and "*", with literal_separator(true): "*"
\* stands for any run of bytes other than "/"
RECURSIVE GlobMatch(_, _)
GlobMatch(glob, string) ==
    IF glob = <<>> THEN string = <<>>
    ELSE IF Head(glob) = 42
    THEN \/ GlobMatch(Tail(glob), string)
         \/ (string # <<>> /\ Head(string) # 47 /\ GlobMatch(glob, Tail(string)))
    ELSE string # <<>> /\ Head(string) = Head(glob) /\ GlobMatch(Tail(glob), Tail(string))

\* glob_set.matches: the indices of the filters whose glob matches
GlobSetMatches(filters, string) ==
    {i \in DOMAIN filters : GlobMatch(filters[i].glob, string)}

\* filter.rs apply_filters: the strings whose last matching filter is an
\* include filter
apply_filters(strings, filters) ==
    {s \in strings :
        /\ GlobSetMatches(filters, s) # {}
        /\ filters[Max(GlobSetMatches(filters, s))].include}

\* filter.rs apply_copy_filters: the copy counts of the last matching
\* filter, (0, 0) when none matches
apply_copy_filters(strings, filters) ==
    [s \in strings |->
        IF GlobSetMatches(filters, s) = {} THEN <<0, 0>>
        ELSE filters[Max(GlobSetMatches(filters, s))].copies]

\* CRC-32/JAMCRC: the reflected CRC-32 with initial value 0xFFFFFFFF and no
\* final complement.  The register is held as its two 16-bit halves.
RECURSIVE JamcrcShift(_, _)
JamcrcShift(crc, n) ==
    IF n = 0 THEN crc
    ELSE \* 0xEDB88320, the reflected polynomial
         Bind([lo |-> (crc.lo \div 2) + ((crc.hi % 2) * 32768), hi |-> crc.hi \div 2],
              LAMBDA s : JamcrcShift(IF (crc.lo % 2) = 1
                                     THEN [lo |-> BitXor(s.lo, 33568), hi |-> BitXor(s.hi, 60856)]
                                     ELSE s,
                                     n - 1))

RECURSIVE JamcrcUpdate(_, _)
JamcrcUpdate(crc, data) ==
    IF data = <<>> THEN crc
    ELSE Bind(JamcrcShift([lo |-> BitXor(crc.lo, Head(data)), hi |-> crc.hi], 8),
              LAMBDA c : JamcrcUpdate(c, Tail(data)))

\* JAMCRC.checksum(data), as the four bytes of its to_le_bytes
JAMCRC(data) ==
    Bind(JamcrcUpdate([lo |-> 65535, hi |-> 65535], data), LAMBDA c :
        <<c.lo % 256, c.lo \div 256, c.hi % 256, c.hi \div 256>>)

\* Adler-32 of data, the trailer of a zlib stream, big endian
RECURSIVE Adler32(_, _, _)
Adler32(data, a, b) ==
    IF data = <<>> THEN <<b \div 256, b % 256, a \div 256, a % 256>>
    ELSE Bind((a + Head(data)) % 65521, LAMBDA a1 :
            Adler32(Tail(data), a1, (b + a1) % 65521))

\* archived_data.rs zlib_compress.  The deflate coding is the encoder's; the
\* stream here is the one with a single stored block: two header bytes, the
\* block header with the length and its complement, the data, the Adler-32.
zlib_compress(data) ==
    <<120, 1, 1>> \o Le(Len(data), 2) \o Le(65535 - Len(data), 2) \o data
        \o Adler32(data, 1, 0)

\* xxh64(data, seed) taken as free of collisions: the digest stands for the
\* data and the seed it was computed from
xxh64(data, seed) == <<seed>> \o data

\* should_compress_file; no level is NoLevel
NoLevel == -1

should_compress_file(level, files_to_compress, file_path) ==
    file_path \in files_to_compress /\ level # 0

\* FileHeaderTrait::is_compressed of the v2 FileHeader: the zlib bit of the
\* method
is_compressed(file_header) == (file_header.method % 2) = 1

\* FileHeader::default()
DefaultFileHeader ==
    [method |-> 0, file_copies |-> 0, file_copies_a |-> 0, data_offset |-> 0,
     unpacked_size |-> 0, packed_size |-> 0, crc32 |-> <<0, 0, 0, 0>>,
     folder_id |-> 0, file_id |-> 0, file_copies_offsets |-> <<>>]

\* the BYTE_COUNT of the v2 structs
BfsHeaderBytes == 20
FileInfoTableEntryBytes == 8
FileNameTableHeaderBytes == 20
HuffmanTreeEntryBytes == 2
FileHeaderBytes == 24

\* FileHeader::to_bytes
FileHeaderToBytes(h) ==
    <<h.method, h.file_copies>> \o Le(h.file_copies_a, 2) \o Le(h.data_offset, 4)
        \o Le(h.unpacked_size, 4) \o Le(h.packed_size, 4) \o h.crc32
        \o Le(h.folder_id, 2) \o Le(h.file_id, 2) \o LeAll(h.file_copies_offsets, 4)

\* BfsHeader::to_bytes
BfsHeaderToBytes(h) ==
    Le(h.magic, 4) \o Le(h.file_version, 4) \o Le(h.data_offset, 4)
        \o Le(h.file_count, 4) \o Le(h.file_info_table_entry_count, 4)

\* FileNameTableHeader::to_bytes
FileNameTableHeaderToBytes(h) ==
    Le(h.file_headers_offset, 4) \o Le(h.file_offset_table_offset, 4)
        \o Le(h.file_name_size_table_offset, 4) \o Le(h.huffman_tree_offset, 4)
        \o Le(h.huffman_data_offset, 4)

\* the key of a name in name_ids: its index in the sorted unique names
NameId(uniques, name) == (CHOOSE i \in DOMAIN uniques : uniques[i] = name) - 1

\* the numbers of the set S in ascending order
Ascending(S) ==
    [i \in 1..Cardinality(S) |-> CHOOSE x \in S : Cardinality({y \in S : y < x}) = i - 1]

\* util.rs get_all_files: the names of the buckets 0..0x3E5 in turn, every
\* bucket in the order its names were pushed
get_all_files(lua_hash_files_map) ==
    Flatten([i \in 1..Cardinality(DOMAIN lua_hash_files_map) |->
        lua_hash_files_map[Ascending(DOMAIN lua_hash_files_map)[i]]])

\* util.rs get_sorted_indices: the indices of data (from 1 here) ordered by
\* the strings they hold
get_sorted_indices(data) ==
    [i \in DOMAIN data |->
        CHOOSE k \in DOMAIN data :
            Cardinality({m \in DOMAIN data : LessStr(data[m], data[k])}) = i - 1]

\* The first part of archive, up to the creation of the destination: the
\* BfsFile about to be written, with the locals the later parts use.
\* key_order is the order in which filenames.keys() yields the names and
\* tree the dictionary create_huffman_tree returned.
PrepareArchive(in, filenames, key_order, tree) ==
    Bind([copy_filters |-> apply_copy_filters(DOMAIN filenames, in.copy_filters),
          hashes |-> [name \in DOMAIN filenames |-> lua_hash(name)],
          uniques |-> SortStrings(unique_file_names(DOMAIN filenames)),
          encoding_map |-> EncodingMap(HuffmanTreeMap(tree))], LAMBDA l :
    Bind([lua_hash_files_map |->
              [h \in Range(l.hashes) |-> SelectSeq(key_order, LAMBDA name : l.hashes[name] = h)],
          lua_hash_count_map |->
              [h \in Range(l.hashes) |-> Cardinality({name \in DOMAIN filenames : l.hashes[name] = h})],
          lua_hash_header_size_map |->
              [h \in Range(l.hashes) |->
                  SumSeq([i \in DOMAIN key_order |->
                      IF l.hashes[key_order[i]] = h
                      THEN FileHeaderBytes + (l.copy_filters[key_order[i]][1] * 4)
                               + (l.copy_filters[key_order[i]][2] * 4)
                      ELSE 0])],
          encoded |-> [i \in DOMAIN l.uniques |-> huffman_encode(l.uniques[i], l.encoding_map)]],
         LAMBDA m :
    Bind([file_offset_table_offset |-> FileNameTableHeaderBytes,
          file_name_size_table_offset |-> FileNameTableHeaderBytes + (Len(l.uniques) * 4),
          huffman_tree_offset |-> FileNameTableHeaderBytes + (Len(l.uniques) * 4)
                                      + (Len(l.uniques) * 2),
          huffman_data_offset |-> FileNameTableHeaderBytes + (Len(l.uniques) * 4)
                                      + (Len(l.uniques) * 2)
                                      + (Len(TreeEntries(tree)) * HuffmanTreeEntryBytes),
          file_headers_offset |-> FileNameTableHeaderBytes + (Len(l.uniques) * 4)
                                      + (Len(l.uniques) * 2)
                                      + (Len(TreeEntries(tree)) * HuffmanTreeEntryBytes)
                                      + Len(Flatten(m.encoded))],
         LAMBDA file_name_table_header :
    Bind(file_name_table_header.file_headers_offset + BfsHeaderBytes
             + (FileInfoTableEntryBytes * HASH_SIZE),
         LAMBDA header_offset :
        [bfs_header |->
            [magic |-> MAGIC,
             file_version |-> in.file_version,
             data_offset |-> header_offset
                 + SumSeq([i \in 1..Cardinality(Range(l.hashes)) |->
                              m.lua_hash_header_size_map[Ascending(Range(l.hashes))[i]]]),
             file_count |-> Len(in.input_files),
             file_info_table_entry_count |-> HASH_SIZE],
         file_info_table |->
            [h \in Range(l.hashes) |->
                [file_header_offset |->
                    header_offset
                        + SumSeq([i \in 1..Cardinality(Range(l.hashes)) |->
                              IF Ascending(Range(l.hashes))[i] < h
                              THEN m.lua_hash_header_size_map[Ascending(Range(l.hashes))[i]]
                              ELSE 0]),
                 file_count |-> m.lua_hash_count_map[h]]],
         file_name_table_header |-> file_name_table_header,
         file_name_offset_table |->
            [i \in DOMAIN l.uniques |-> Len(Flatten(SubSeq(m.encoded, 1, i - 1)))],
         file_name_size_table |-> [i \in DOMAIN l.uniques |-> Len(l.uniques[i])],
         file_name_huffman_tree |-> TreeEntries(tree),
         file_name_huffman_data |-> Flatten(m.encoded),
         filenames |-> filenames,
         copy_filters |-> l.copy_filters,
         uniques |-> l.uniques,
         files_to_compress |-> apply_filters(DOMAIN filenames, in.filters),
         all_files |-> get_all_files(m.lua_hash_files_map),
         sorted_indices |-> get_sorted_indices(get_all_files(m.lua_hash_files_map))]))))

(***************************************************************************)
(* The destination behind its BufWriter.  A run of bytes is a record       *)
(* [len, segs]: len bytes that are zero except for the segments, each      *)
(* [at, data] with at counted from the start of the run.  The file is such *)
(* a run from offset 0; of two segments that overlap the later one holds   *)
(* the bytes.  The writer is [file, pos, buf]: the bytes that reached the  *)
(* file, the position of the file, the bytes still in the buffer.          *)
(***************************************************************************)
\* BufWriter::new: the capacity of the buffer
BufCapacity == 8 * 1024

Chunk(data) ==
    [len |-> Len(data),
     segs |-> IF data = <<>> THEN <<>> ELSE <<[at |-> 0, data |-> data]>>]

Zeros(n) == [len |-> n, segs |-> <<>>]

Shift(segs, by) == [i \in DOMAIN segs |-> [at |-> segs[i].at + by, data |-> segs[i].data]]

ChunkCat(a, b) == [len |-> a.len + b.len, segs |-> a.segs \o Shift(b.segs, a.len)]

\* the bytes from..to-1 of a run
Clip(chunk, from, to) ==
    [len |-> to - from,
     segs |->
        LET kept == SelectSeq(chunk.segs,
                        LAMBDA s : Max({s.at, from}) < Min(s.at + Len(s.data), to))
        IN  [i \in DOMAIN kept |->
                [at |-> Max({kept[i].at, from}) - from,
                 data |-> SubSeq(kept[i].data,
                                 (Max({kept[i].at, from}) - kept[i].at) + 1,
                                 Min(kept[i].at + Len(kept[i].data), to) - kept[i].at)]]]

\* the file after the run was written at pos
Land(file, pos, chunk) ==
    [len |-> Max({file.len, pos + chunk.len}), segs |-> file.segs \o Shift(chunk.segs, pos)]

\* the bytes at..at+n-1 of the file
FileBytes(file, at, n) == [i \in 1..n |-> StreamByte(file, (at + i) - 1)]

NewWriter == [file |-> Zeros(0), pos |-> 0, buf |-> Zeros(0)]

\* stream_position as the caller sees it
WriterPosition(w) == w.pos + w.buf.len

\* What a step asks of the writer: write_all calls, each of `unit` bytes,
\* that together write a run; a seek; a stream_position.
WriteOp(chunk, unit) == [kind |-> "write", chunk |-> chunk, unit |-> unit, to |-> 0]
SeekOp(to) == [kind |-> "seek", chunk |-> Zeros(0), unit |-> 0, to |-> to]
PositionOp == [kind |-> "position", chunk |-> Zeros(0), unit |-> 0, to |-> 0]

\* a write of the underlying file: the bytes handed to it and whether they
\* come from the buffer or, too long for it, straight from the caller
FileWrite(w, pending, direct) ==
    [file |-> w.file, pos |-> w.pos, pending |-> pending, direct |-> direct]

\* flush_buf
Flushed(w) == [file |-> Land(w.file, w.pos, w.buf), pos |-> w.pos + w.buf.len, buf |-> Zeros(0)]

FlushWrites(w) == IF w.buf.len = 0 THEN <<>> ELSE <<FileWrite(w, w.buf, FALSE)>>

\* The writer after the operations, all of them successful, and the writes
\* of the file they made.  BufWriter::write_all flushes the buffer when the
\* bytes do not fit and hands bytes as long as the buffer to the file;
\* BufWriter::seek, and with it stream_position, flushes first.
RECURSIVE Run(_, _, _)
RunStep(w, ops, writes) ==
    IF ops = <<>> THEN [w |-> w, writes |-> writes]
    ELSE IF Head(ops).kind = "seek"
    THEN Run([Flushed(w) EXCEPT !.pos = Head(ops).to], Tail(ops), writes \o FlushWrites(w))
    ELSE IF Head(ops).kind = "position"
    THEN Run(Flushed(w), Tail(ops), writes \o FlushWrites(w))
    ELSE IF Head(ops).chunk.len = 0
    THEN Run(w, Tail(ops), writes)
    ELSE IF w.buf.len + Head(ops).chunk.len <= BufCapacity /\ Head(ops).unit < BufCapacity
    THEN Run([w EXCEPT !.buf = ChunkCat(w.buf, Head(ops).chunk)], Tail(ops), writes)
    ELSE IF w.buf.len + Head(ops).unit <= BufCapacity /\ Head(ops).unit < BufCapacity
    THEN \* the calls that fit, then the rest
         Bind(((BufCapacity - w.buf.len) \div Head(ops).unit) * Head(ops).unit, LAMBDA n :
            Run([w EXCEPT !.buf = ChunkCat(w.buf, Clip(Head(ops).chunk, 0, n))],
                <<WriteOp(Clip(Head(ops).chunk, n, Head(ops).chunk.len), Head(ops).unit)>>
                    \o Tail(ops),
                writes))
    ELSE IF w.buf.len > 0
    THEN Run(Flushed(w), ops, writes \o FlushWrites(w))
    ELSE \* a call with as many bytes as the buffer holds, or more
         Bind(Min(Head(ops).unit, Head(ops).chunk.len), LAMBDA n :
            Run([file |-> Land(w.file, w.pos, Clip(Head(ops).chunk, 0, n)),
                 pos |-> w.pos + n, buf |-> Zeros(0)],
                <<WriteOp(Clip(Head(ops).chunk, n, Head(ops).chunk.len), Head(ops).unit)>>
                    \o Tail(ops),
                writes \o <<FileWrite(w, Clip(Head(ops).chunk, 0, n), TRUE)>>))

Run(w, ops, writes) == Bind(<<w, ops, writes>>, LAMBDA a : RunStep(a[1], a[2], a[3]))

\* How many bytes of a write of the file can have reached it when the
\* write, or the step it belongs to, failed.  What stays in the buffer is
\* written when the BufWriter is dropped, and the result of that is
\* discarded.
LandedSizes(write) ==
    {n \in {0, 16, 20, write.pending.len - 1, write.pending.len} :
        /\ 0 <= n
        /\ n <= write.pending.len
        /\ write.direct => n < write.pending.len}

\* the file a failed write leaves
Partial(write, n) == Land(write.file, write.pos, Clip(write.pending, 0, n))

\* the files that the failure of one of the writes can leave
FailedWrites(writes) ==
    UNION {{Partial(writes[i], n) : n \in LandedSizes(writes[i])} : i \in DOMAIN writes}

\* the files that are left when the step fails with the buffer as it is
DroppedWriter(w) ==
    {Partial(FileWrite(w, w.buf, FALSE), n) : n \in LandedSizes(FileWrite(w, w.buf, FALSE))}

\* util.rs align_file_in_stream with nothing to align: the position of the
\* stream, where the data is written next
align_file_in_stream(w, size) == WriterPosition(w)

\* write_file_to_output without the assignment of packed_size in the store
\* branch
write_file_to_output_packed_unset(format, level, w, files_to_compress, file_path, data, file_header) ==
    Bind([compress |-> should_compress_file(level, files_to_compress, file_path),
          copies |-> file_header.file_copies + file_header.file_copies_a], LAMBDA l :
    Bind(IF l.compress THEN zlib_compress(data) ELSE data, LAMBDA stored :
        [file_header |->
            [file_header EXCEPT
                !.method = IF l.compress
                           THEN (IF format = "V2" THEN 5 ELSE 1)
                           ELSE (IF format = "V2" THEN 4 ELSE 0),
                !.data_offset = align_file_in_stream(w, Len(stored)),
                !.packed_size = IF l.compress THEN Len(stored) ELSE file_header.packed_size,
                !.file_copies_offsets =
                    [k \in 1..l.copies |-> WriterPosition(w) + (k * Len(stored))]],
         ops |-> <<WriteOp(Chunk(stored), Len(stored))>>
                    \o Flatten([k \in 1..l.copies |->
                                   <<PositionOp, WriteOp(Chunk(stored), Len(stored))>>])]))

\* write_file_to_output: the header with method, offset, size and the
\* offsets of the copies, and the operations on the writer
write_file_to_output(format, level, w, files_to_compress, file_path, data, file_header) ==
    Bind([compress |-> should_compress_file(level, files_to_compress, file_path),
          copies |-> file_header.file_copies + file_header.file_copies_a], LAMBDA l :
    Bind(IF l.compress THEN zlib_compress(data) ELSE data, LAMBDA stored :
        [file_header |->
            [file_header EXCEPT
                !.method = IF l.compress
                           THEN (IF format = "V2" THEN 5 ELSE 1)
                           ELSE (IF format = "V2" THEN 4 ELSE 0),
                !.data_offset = align_file_in_stream(w, Len(stored)),
                !.packed_size = IF l.compress THEN Len(stored) ELSE file_header.unpacked_size,
                !.file_copies_offsets =
                    [k \in 1..l.copies |-> WriterPosition(w) + (k * Len(stored))]],
         ops |-> <<WriteOp(Chunk(stored), Len(stored))>>
                    \o Flatten([k \in 1..l.copies |->
                                   <<PositionOp, WriteOp(Chunk(stored), Len(stored))>>])]))

\* the cached header of a digest, <<>> when there is none
CachedHeader(dedupe_hash_to_header, dedupe_hash) ==
    IF dedupe_hash \in DOMAIN dedupe_hash_to_header
    THEN <<dedupe_hash_to_header[dedupe_hash]>>
    ELSE <<>>

\* One turn of the loop over the files, for the file of name file_path with
\* the bytes data: the header of the file, the cache after the turn and the
\* operations on the writer.
ArchiveFileStep(in, bfs, w, dedupe_hash_to_header, file_path, data) ==
    Bind([file_header |->
              [DefaultFileHeader EXCEPT
                  !.file_copies = bfs.copy_filters[file_path][1],
                  !.file_copies_a = bfs.copy_filters[file_path][2],
                  !.unpacked_size = Len(data),
                  !.crc32 = IF in.format = "V2" THEN JAMCRC(data) ELSE <<0, 0, 0, 0>>,
                  !.folder_id = NameId(bfs.uniques, rsplit_once(file_path)[1]),
                  !.file_id = NameId(bfs.uniques, rsplit_once(file_path)[2])],
          dedupe_hash |-> xxh64(data, 0)], LAMBDA l :
    Bind([written |-> write_file_to_output(in.format, in.level, w, bfs.files_to_compress,
                                           file_path, data, l.file_header),
          cached |-> CachedHeader(dedupe_hash_to_header, l.dedupe_hash)], LAMBDA m :
        IF ~in.deduplicate
        THEN [file_header |-> m.written.file_header, ops |-> m.written.ops,
              dedupe_hash_to_header |-> dedupe_hash_to_header]
        ELSE IF m.cached = <<>>
        THEN [file_header |-> m.written.file_header, ops |-> m.written.ops,
              dedupe_hash_to_header |->
                  (l.dedupe_hash :> m.written.file_header) @@ dedupe_hash_to_header]
        ELSE IF /\ should_compress_file(in.level, bfs.files_to_compress, file_path)
                       = is_compressed(m.cached[1])
                /\ m.cached[1].unpacked_size = l.file_header.unpacked_size
        THEN [file_header |->
                  [l.file_header EXCEPT !.method = m.cached[1].method,
                                        !.packed_size = m.cached[1].packed_size,
                                        !.data_offset = m.cached[1].data_offset],
              ops |-> <<>>,
              dedupe_hash_to_header |-> dedupe_hash_to_header]
        ELSE [file_header |-> m.written.file_header, ops |-> m.written.ops,
              dedupe_hash_to_header |-> dedupe_hash_to_header]))

\* the file info table as the bytes of its 0x3E5 entries
FileInfoTableChunk(file_info_table) ==
    [len |-> HASH_SIZE * FileInfoTableEntryBytes,
     segs |-> [i \in 1..Cardinality(DOMAIN file_info_table) |->
                  [at |-> Ascending(DOMAIN file_info_table)[i] * FileInfoTableEntryBytes,
                   data |-> Le(file_info_table[Ascending(DOMAIN file_info_table)[i]].file_header_offset, 4)
                            \o Le(file_info_table[Ascending(DOMAIN file_info_table)[i]].file_count, 4)]]]

\* HuffmanTreeEntry::to_bytes of every entry
HuffmanTreeToBytes(entries) ==
    [b \in 1..(2 * Len(entries)) |->
        IF b % 2 = 1 THEN entries[(b + 1) \div 2].value ELSE entries[b \div 2].node_type]

\* the writes of the header pass with no seek before them
ArchiveHeaderOps_no_seek(bfs, file_headers) ==
    <<WriteOp(Chunk(BfsHeaderToBytes(bfs.bfs_header)), BfsHeaderBytes),
      WriteOp(FileInfoTableChunk(bfs.file_info_table), FileInfoTableEntryBytes),
      WriteOp(Chunk(FileNameTableHeaderToBytes(bfs.file_name_table_header)),
              FileNameTableHeaderBytes)>>

\* The last part of archive: the seek to the start and the writes of the
\* header, the tables and the file headers.
ArchiveHeaderOps(bfs, file_headers) ==
    <<SeekOp(0),
      WriteOp(Chunk(BfsHeaderToBytes(bfs.bfs_header)), BfsHeaderBytes),
      WriteOp(FileInfoTableChunk(bfs.file_info_table), FileInfoTableEntryBytes),
      WriteOp(Chunk(FileNameTableHeaderToBytes(bfs.file_name_table_header)),
              FileNameTableHeaderBytes),
      WriteOp(Chunk(LeAll(bfs.file_name_offset_table, 4)), 4),
      WriteOp(Chunk(LeAll(bfs.file_name_size_table, 2)), 2),
      WriteOp(Chunk(HuffmanTreeToBytes(bfs.file_name_huffman_tree)), HuffmanTreeEntryBytes),
      WriteOp(Chunk(bfs.file_name_huffman_data), Len(bfs.file_name_huffman_data))>>
        \o [i \in DOMAIN file_headers |->
               WriteOp(Chunk(FileHeaderToBytes(file_headers[i])),
                       Len(FileHeaderToBytes(file_headers[i])))]

(***************************************************************************)
(* Specification SpecHash: lua_hash applied to bounded inputs.             *)
(***************************************************************************)
HashBytes == {97, 255}

\* A name of n bytes, long enough for the stride to exceed 1.
LongName(n, k) == [p \in 1..n |-> IF (p % k) = 0 THEN 47 ELSE 97 + (p % 26)]

HashInputs ==
    SeqsUpTo(HashBytes, MaxHashLen)
    \cup {LongName(n, k) : n \in {7, 12, 31, 32, 33, 63, 64, 65, 96}, k \in {2, 3, 5}}

HashIdle == hash_in = <<>> /\ hash_out = -1

RdIdle ==
    /\ rd_pc = "idle"
    /\ rd_stream = [len |-> 0, segs |-> <<>>]
    /\ rd_format = "Bfs2004b"
    /\ rd_force = FALSE
    /\ rd_checks = FALSE
    /\ rd_result = Outcome("None", 0, 0)
    /\ rd_reader = NoReader
    /\ rd_listing = Failed("None")

HuffIdle ==
    /\ huff_pc = "idle"
    /\ huff_names = <<>>
    /\ huff_tree = <<>>
    /\ huff_data = <<>>
    /\ huff_encoded = <<>>
    /\ huff_decoded = <<>>

ArIdle ==
    /\ ar_pc = "idle"
    /\ ar_in = <<>>
    /\ ar_bfs = <<>>
    /\ ar_i = 0
    /\ ar_headers = <<>>
    /\ ar_dedupe = <<>>
    /\ ar_writer = NewWriter
    /\ ar_created = FALSE
    /\ ar_failed = "none"
    /\ ar_file = Zeros(0)

DictIdle == dd_serialized = <<>> /\ dd_result = Failed("None")

V1Idle == v1_files = <<>> /\ v1_result = Failed("None")

ExIdle ==
    /\ ex_pc = "idle"
    /\ ex_format = "Bfs2004a"
    /\ ex_stream = [len |-> 0, segs |-> <<>>]
    /\ ex_reader = NoReader
    /\ ex_asked = <<>>
    /\ ex_infos = <<>>
    /\ ex_queue = <<>>
    /\ ex_calls = <<>>
    /\ ex_outputs = <<>>
    /\ ex_result = "None"
    /\ ex_ops = <<>>

BdIdle == bd_request = <<>> /\ bd_result = Failed("None") /\ bd_layout = <<>>

NmIdle == nm_tables = <<>> /\ nm_result = Failed("None")

EnIdle == en_entry = <<>> /\ en_bytes = <<>> /\ en_parsed = <<>>

RestIdle == NmIdle /\ EnIdle

MoreIdleButRest == DictIdle /\ V1Idle /\ ExIdle /\ BdIdle

MoreIdle == MoreIdleButRest /\ RestIdle

InitHash ==
    /\ MoreIdle
    /\ ArIdle
    /\ hash_in \in HashInputs
    /\ hash_out = -1
    /\ HuffIdle
    /\ RdIdle

HashCall ==
    /\ hash_out = -1
    /\ hash_out' = lua_hash(hash_in)
    /\ UNCHANGED <<moreVars, hash_in, huffVars, rdVars, arVars>>

NextHash == HashCall

SpecHash == InitHash /\ [][NextHash]_vars

(***************************************************************************)
(* Specification SpecHuff: a dictionary is built from a list of names,     *)
(* then a byte string over the bytes of those names is encoded and the     *)
(* result decoded with the string's length as the expected size, the way   *)
(* V2BfsFile::archive encodes and read_bfs_from_file decodes a name.       *)
(***************************************************************************)
HuffFragments ==
    {<<97>>, <<97, 97>>, <<100, 97, 116, 97>>, <<99>>, <<116, 97>>}

HuffNameLists ==
    {SetToSeq(S) : S \in {T \in SUBSET HuffFragments : Cardinality(T) <= MaxHuffNames}}

InitHuff ==
    /\ MoreIdle
    /\ ArIdle
    /\ HashIdle
    /\ RdIdle
    /\ huff_pc = "start"
    /\ huff_names \in HuffNameLists
    /\ huff_tree = <<>>
    /\ huff_data = <<>>
    /\ huff_encoded = <<>>
    /\ huff_decoded = <<>>

\* create_huffman_tree(names) returns
HuffCreate ==
    /\ huff_pc = "start"
    /\ create_huffman_tree(huff_names) # {}
    /\ huff_tree' \in create_huffman_tree(huff_names)
    /\ huff_pc' = "built"
    /\ UNCHANGED <<moreVars, hashVars, rdVars, arVars, huff_names, huff_data, huff_encoded, huff_decoded>>

\* create_huffman_tree(names) panics
HuffCreatePanic ==
    /\ huff_pc = "start"
    /\ create_huffman_tree(huff_names) = {}
    /\ huff_pc' = "panic"
    /\ UNCHANGED <<moreVars, hashVars, rdVars, arVars, huff_names, huff_tree, huff_data, huff_encoded, huff_decoded>>

\* huffman_encode(data, encoding_map), then huffman_decode(encoded, map, len)
HuffRoundTrip ==
    /\ huff_pc = "built"
    /\ \E data \in SeqsUpTo(Range(Flatten(huff_names)), MaxHuffData) :
          LET map == HuffmanTreeMap(huff_tree)
              encoded == huffman_encode(data, EncodingMap(map))
          IN  /\ huff_data' = data
              /\ huff_encoded' = encoded
              /\ huff_decoded' = huffman_decode(encoded, map, Len(data))
    /\ huff_pc' = "coded"
    /\ UNCHANGED <<moreVars, hashVars, rdVars, arVars, huff_names, huff_tree>>

NextHuff == HuffCreate \/ HuffCreatePanic \/ HuffRoundTrip

SpecHuff == InitHuff /\ [][NextHuff]_vars

(***************************************************************************)
(* Specification SpecRead: read_archive on a stream, then file_names on    *)
(* the reader it returned.  The streams are archives laid out the way the  *)
(* two formats lay them out, with fields replaced and ends cut off.        *)
(***************************************************************************)
FileHeaderBytes2004b(h) ==
    <<h.flags, h.file_copies, 0, 0>> \o Le(h.data_offset, 4) \o Le(h.unpacked_size, 4)
        \o Le(h.packed_size, 4) \o Le(h.crc32, 4) \o Le(h.folder_id, 2) \o Le(h.file_id, 2)
        \o LeAll(h.file_copies_offsets, 4)

FileHeaderBytes2004a(h) ==
    <<h.flags, h.file_copies, 0, 0>> \o Le(h.data_offset, 4) \o Le(h.unpacked_size, 4)
        \o Le(h.packed_size, 4) \o Le(h.crc32, 4) \o Le(Len(h.file_name), 2)
        \o h.file_name \o LeAll(h.file_copies_offsets, 4)

\* A Bfs2004b archive: names "a", "b", "ab" coded with a = 1 and b = 0, and
\* the files "a/b" and "a/ab", the second with one copy.
NameTable2004b ==
    [file_name_offset_table |-> <<0, 1, 2>>,
     file_name_length_table |-> <<1, 1, 2>>,
     serialized_huffman_dict |-> <<BRANCH, 2, LEAF, 97, LEAF, 98>>,
     encoded_huffman_data |-> <<1, 0, 1>>]

FileHeaders2004b ==
    <<[flags |-> 4, file_copies |-> 0, data_offset |-> 8192, unpacked_size |-> 3,
       packed_size |-> 3, crc32 |-> 77, folder_id |-> 0, file_id |-> 1,
       file_copies_offsets |-> <<>>],
      [flags |-> 5, file_copies |-> 1, data_offset |-> 8195, unpacked_size |-> 9,
       packed_size |-> 5, crc32 |-> 78, folder_id |-> 0, file_id |-> 2,
       file_copies_offsets |-> <<8200>>]>>

\* The stream of a Bfs2004b archive with the given header fields, name
\* table and file headers.  The tables follow the metadata header in the
\* order offsets, lengths, dictionary, data, file headers; `moved` replaces
\* offsets of the metadata header after the layout.
Stream2004b(magic, version, hash_size, table, file_headers, header_end, moved, cut) ==
    LET metadata_start == 20 + (8 * hash_size)
        offsets_at == 20
        lengths_at == offsets_at + (4 * Len(table.file_name_offset_table))
        dict_at == lengths_at + (2 * Len(table.file_name_length_table))
        data_at == dict_at + Len(table.serialized_huffman_dict)
        headers_at == data_at + Len(table.encoded_huffman_data)
        headers == Flatten([i \in DOMAIN file_headers |->
                               FileHeaderBytes2004b(file_headers[i])])
        end == metadata_start + headers_at + Len(headers)
        laid == [file_headers_offset |-> headers_at,
                 file_name_offset_table_offset |-> offsets_at,
                 file_name_length_table_offset |-> lengths_at,
                 huffman_dictionary_offset |-> dict_at,
                 huffman_data_offset |-> data_at]
        header == [f \in DOMAIN laid |-> IF f \in DOMAIN moved THEN moved[f] ELSE laid[f]]
    IN  [len |-> IF cut = 0 THEN end ELSE cut,
         segs |-> <<[at |-> 0,
                     data |-> Le(magic, 4) \o Le(version, 4)
                              \o Le(IF header_end = 0 THEN end ELSE header_end, 4)
                              \o Le(Len(file_headers), 4) \o Le(hash_size, 4)],
                    [at |-> metadata_start,
                     data |-> Le(header.file_headers_offset, 4)
                              \o Le(header.file_name_offset_table_offset, 4)
                              \o Le(header.file_name_length_table_offset, 4)
                              \o Le(header.huffman_dictionary_offset, 4)
                              \o Le(header.huffman_data_offset, 4)
                              \o LeAll(table.file_name_offset_table, 4)
                              \o LeAll(table.file_name_length_table, 2)
                              \o table.serialized_huffman_dict
                              \o table.encoded_huffman_data
                              \o headers]>>]

FileHeaders2004a ==
    <<[flags |-> 5, file_copies |-> 1, data_offset |-> 4096, unpacked_size |-> 9,
       packed_size |-> 5, crc32 |-> 78, file_name |-> <<97, 47, 98>>,
       file_copies_offsets |-> <<4101>>]>>

\* The stream of a Bfs2004a archive: header, file header offsets, hash
\* table, file headers.
Stream2004a(magic, version, hash_size, file_headers, cut) ==
    LET headers_at == 16 + (4 * Len(file_headers)) + 4 + (4 * hash_size)
        headers == Flatten([i \in DOMAIN file_headers |->
                               FileHeaderBytes2004a(file_headers[i])])
        end == headers_at + Len(headers)
    IN  [len |-> IF cut = 0 THEN end ELSE cut,
         segs |-> <<[at |-> 0,
                     data |-> Le(magic, 4) \o Le(version, 4) \o Le(end, 4)
                              \o Le(Len(file_headers), 4)
                              \o LeAll([i \in DOMAIN file_headers |-> headers_at], 4)
                              \o Le(hash_size, 4)],
                    [at |-> headers_at, data |-> headers]>>]

\* header fields that match the formats' constants and ones that do not
Magics == {MAGIC, MAGIC + 1}
Versions == {VERSION, VERSION + 1}
HashSizes == {HASH_SIZE, 2}

\* name tables and file headers whose values point out of range
NoMove == [f \in {} |-> 0]

BodyCases ==
    {[table |-> NameTable2004b, file_headers |-> FileHeaders2004b,
      header_end |-> 0, moved |-> NoMove],
     \* a name offset beyond the end of the Huffman data
     [table |-> [NameTable2004b EXCEPT !.file_name_offset_table = <<0, 1, 5>>],
      file_headers |-> FileHeaders2004b, header_end |-> 0, moved |-> NoMove],
     \* a name offset smaller than the preceding one
     [table |-> [NameTable2004b EXCEPT !.file_name_offset_table = <<0, 2, 1>>],
      file_headers |-> FileHeaders2004b, header_end |-> 0, moved |-> NoMove],
     \* a folder index beyond the decoded names
     [table |-> NameTable2004b,
      file_headers |-> [FileHeaders2004b EXCEPT ![2].folder_id = 7],
      header_end |-> 0, moved |-> NoMove],
     \* metadata offsets beyond header_end, the Huffman data the last of them
     [table |-> NameTable2004b, file_headers |-> FileHeaders2004b,
      header_end |-> 16, moved |-> [f \in {"file_headers_offset"} |-> 20]],
     \* a node type that is neither branch nor leaf
     [table |-> [NameTable2004b EXCEPT
                    !.serialized_huffman_dict = <<BRANCH, 2, 1, 97, LEAF, 98>>],
      file_headers |-> FileHeaders2004b, header_end |-> 0, moved |-> NoMove],
     \* a name with a byte that is not ASCII
     [table |-> [NameTable2004b EXCEPT
                    !.serialized_huffman_dict = <<BRANCH, 2, LEAF, 97, LEAF, 200>>],
      file_headers |-> FileHeaders2004b, header_end |-> 0, moved |-> NoMove]}

Cuts == {10, 18, 40}

Streams ==
    {Stream2004b(m, v, h, b.table, b.file_headers, b.header_end, b.moved, 0) :
        m \in Magics, v \in Versions, h \in HashSizes, b \in BodyCases}
    \cup {Stream2004b(m, v, h, NameTable2004b, FileHeaders2004b, 0, NoMove, c) :
        m \in Magics, v \in Versions, h \in HashSizes, c \in Cuts}
    \cup {Stream2004a(m, v, h, FileHeaders2004a, c) :
        m \in Magics, v \in Versions, h \in HashSizes, c \in Cuts \cup {0}}

\* the variants of Format, under the names of formats.rs and of
\* formats/mod.rs
Formats ==
    {"Bzf2001", "Bzf2002", "Bbzf", "Bzf2", "Bfs2004a", "Bfs2004b", "Bfs2007", "Bfs2011",
     "Bfs2013"}

InitRead ==
    /\ MoreIdle
    /\ ArIdle
    /\ HashIdle
    /\ HuffIdle
    /\ rd_pc = "start"
    /\ rd_stream \in Streams
    /\ rd_format \in Formats
    /\ rd_force \in BOOLEAN
    /\ rd_checks \in BOOLEAN
    /\ rd_result = Outcome("None", 0, 0)
    /\ rd_reader = NoReader
    /\ rd_listing = Failed("None")

\* read_archive(archive, archive_format, force)
ReadArchive ==
    /\ rd_pc = "start"
    /\ \E r \in read_archive(rd_stream, rd_format, rd_force, MaxDictSteps, rd_checks) :
          /\ rd_result' = r.outcome
          /\ rd_reader' = r.reader
    /\ rd_pc' = "read"
    /\ UNCHANGED <<moreVars, hashVars, huffVars, arVars, rd_stream, rd_format, rd_force, rd_checks,
                   rd_listing>>

\* reader.file_names()
FileNames ==
    /\ rd_pc = "read"
    /\ rd_result.kind = "Reader"
    /\ rd_listing' = file_names(rd_format, rd_reader)
    /\ rd_pc' = "listed"
    /\ UNCHANGED <<moreVars, hashVars, huffVars, arVars, rd_stream, rd_format, rd_force, rd_checks,
                   rd_result, rd_reader>>

NextRead == ReadArchive \/ FileNames

SpecRead == InitRead /\ [][NextRead]_vars

(***************************************************************************)
(* Specification SpecArchive: V2BfsFile::archive builds an archive from a  *)
(* list of files under the folder "b".  The steps are the parts of the     *)
(* function between which it can stop: the preparation of the tables, the  *)
(* creation of the destination with its placeholder, one turn of the loop  *)
(* per file, the pass that writes the headers.  Opening a file and every   *)
(* write of the destination can fail.                                      *)
(***************************************************************************)
Base == <<98>>

PathA == <<98, 47, 100, 97, 116, 97, 47, 97>>
PathC == <<98, 47, 100, 97, 116, 97, 47, 99>>
PathTa == <<98, 47, 100, 97, 116, 97, 47, 116, 97>>
PathRootC == <<98, 47, 99>>
PathE == <<98, 47, 100, 97, 116, 97, 47, 101>>
PathNonAscii == <<98, 47, 195, 169>>

Paths == {PathA, PathC, PathTa, PathRootC, PathE}

\* what File::open and read_to_end give for a path; the file "b/data/e" is
\* empty
FileContents(path) ==
    IF path = PathRootC THEN <<66>> ELSE IF path = PathE THEN <<>> ELSE <<65, 65>>

InputLists ==
    {<<>>, <<PathNonAscii>>, <<PathC, PathRootC>>}
        \cup {SortStrings(S) : S \in {T \in SUBSET Paths : T # {} /\ Cardinality(T) <= MaxFiles}}

GlobData == <<100, 97, 116, 97, 47, 42>>
GlobDataA == <<100, 97, 116, 97, 47, 97>>

\* the filters "+ data/*" and "- data/a"
FilterLists ==
    {<<>>,
     <<[include |-> TRUE, glob |-> GlobData]>>,
     <<[include |-> TRUE, glob |-> GlobData], [include |-> FALSE, glob |-> GlobDataA]>>}

\* the copy filter "8+2 data/*"
CopyFilterLists == {<<>>, <<[copies |-> <<8, 2>>, glob |-> GlobData]>>}

Levels == {NoLevel, 0}

ArchiveFormats == {"V2", "V2a"}

ArchiveInputs ==
    [input_files : InputLists, filters : FilterLists, copy_filters : CopyFilterLists,
     level : Levels, deduplicate : BOOLEAN, format : ArchiveFormats, file_version : {VERSION}]

InitArchive ==
    /\ MoreIdle
    /\ HashIdle
    /\ HuffIdle
    /\ RdIdle
    /\ ar_pc = "start"
    /\ ar_in \in ArchiveInputs
    /\ ar_bfs = <<>>
    /\ ar_i = 0
    /\ ar_headers = <<>>
    /\ ar_dedupe = <<>>
    /\ ar_writer = NewWriter
    /\ ar_created = FALSE
    /\ ar_failed = "none"
    /\ ar_file = Zeros(0)

ArchiveFilenames == sanitize_file_list(Base \o <<47>>, ar_in.input_files)

ArchiveUniques == SortStrings(unique_file_names(DOMAIN ArchiveFilenames))

\* sanitize_file_list panics on a name that is not ASCII and
\* create_huffman_tree on names without a byte
ArchivePanics ==
    \/ SanitizePanics(Base \o <<47>>, ar_in.input_files)
    \/ create_huffman_tree(ArchiveUniques) = {}

ArchivePanic ==
    /\ ar_pc = "start"
    /\ ArchivePanics
    /\ ar_pc' = "panic"
    /\ UNCHANGED <<moreVars, hashVars, huffVars, rdVars, ar_in, ar_bfs, ar_i, ar_headers, ar_dedupe,
                   ar_writer, ar_created, ar_failed, ar_file>>

\* lines 216-331: the header, the tables and the name table
ArchivePrepare ==
    /\ ar_pc = "start"
    /\ ~ArchivePanics
    /\ \E filenames \in {ArchiveFilenames} :
       \E key_order \in Orders(DOMAIN filenames) :
       \E tree \in create_huffman_tree(ArchiveUniques) :
          ar_bfs' = PrepareArchive(ar_in, filenames, key_order, tree)
    /\ ar_pc' = "create"
    /\ UNCHANGED <<moreVars, hashVars, huffVars, rdVars, ar_in, ar_i, ar_headers, ar_dedupe,
                   ar_writer, ar_created, ar_failed, ar_file>>

\* the placeholder for the header and the tables
PlaceholderRun ==
    Run(NewWriter,
        <<WriteOp(Zeros(ar_bfs.bfs_header.data_offset), ar_bfs.bfs_header.data_offset)>>,
        <<>>)

\* lines 333-348: File::create and the placeholder
ArchiveCreate ==
    /\ ar_pc = "create"
    /\ ar_writer' = PlaceholderRun.w
    /\ ar_created' = TRUE
    /\ ar_headers' = [i \in DOMAIN ar_bfs.all_files |-> DefaultFileHeader]
    /\ ar_pc' = "data"
    /\ UNCHANGED <<moreVars, hashVars, huffVars, rdVars, ar_in, ar_bfs, ar_i, ar_dedupe, ar_failed,
                   ar_file>>

\* File::create fails
ArchiveCreateFail ==
    /\ ar_pc = "create"
    /\ ar_failed' = "create"
    /\ ar_pc' = "error"
    /\ UNCHANGED <<moreVars, hashVars, huffVars, rdVars, ar_in, ar_bfs, ar_i, ar_headers, ar_dedupe,
                   ar_writer, ar_created, ar_file>>

\* the write of the placeholder fails
ArchivePlaceholderFail ==
    /\ ar_pc = "create"
    /\ ar_file' \in FailedWrites(PlaceholderRun.writes)
    /\ ar_created' = TRUE
    /\ ar_failed' = "placeholder"
    /\ ar_pc' = "error"
    /\ UNCHANGED <<moreVars, hashVars, huffVars, rdVars, ar_in, ar_bfs, ar_i, ar_headers, ar_dedupe,
                   ar_writer>>

\* the file of this turn of the loop: its index in all_files and its name
ArchiveFileIndex == ar_bfs.sorted_indices[ar_i + 1]

ArchiveFilePath == ar_bfs.all_files[ArchiveFileIndex]

ArchiveTurn ==
    ArchiveFileStep(ar_in, ar_bfs, ar_writer, ar_dedupe, ArchiveFilePath,
                    FileContents(ar_bfs.filenames[ArchiveFilePath]))

\* lines 350-419: one turn of the loop over the files
ArchiveFile ==
    /\ ar_pc = "data"
    /\ ar_i < Len(ar_bfs.all_files)
    /\ \E turn \in {ArchiveTurn} :
          /\ ar_writer' = Run(ar_writer, turn.ops, <<>>).w
          /\ ar_headers' = [ar_headers EXCEPT ![ArchiveFileIndex] = turn.file_header]
          /\ ar_dedupe' = turn.dedupe_hash_to_header
    /\ ar_i' = ar_i + 1
    /\ UNCHANGED <<moreVars, hashVars, huffVars, rdVars, ar_in, ar_bfs, ar_pc, ar_created, ar_failed,
                   ar_file>>

\* File::open or read_to_end fails
ArchiveOpenFail ==
    /\ ar_pc = "data"
    /\ ar_i < Len(ar_bfs.all_files)
    /\ ar_file' \in DroppedWriter(ar_writer)
    /\ ar_failed' = "open"
    /\ ar_pc' = "error"
    /\ UNCHANGED <<moreVars, hashVars, huffVars, rdVars, ar_in, ar_bfs, ar_i, ar_headers, ar_dedupe,
                   ar_writer, ar_created>>

\* a write of write_file_to_output fails
ArchiveWriteFail ==
    /\ ar_pc = "data"
    /\ ar_i < Len(ar_bfs.all_files)
    /\ ar_file' \in FailedWrites(Run(ar_writer, ArchiveTurn.ops, <<>>).writes)
    /\ ar_failed' = "write"
    /\ ar_pc' = "error"
    /\ UNCHANGED <<moreVars, hashVars, huffVars, rdVars, ar_in, ar_bfs, ar_i, ar_headers, ar_dedupe,
                   ar_writer, ar_created>>

\* lines 425-446: the headers are written over the placeholder; the
\* BufWriter is dropped and writes what its buffer holds
ArchiveHeaders ==
    /\ ar_pc = "data"
    /\ ar_i = Len(ar_bfs.all_files)
    /\ ar_file' = Flushed(Run(ar_writer, ArchiveHeaderOps(ar_bfs, ar_headers), <<>>).w).file
    /\ ar_pc' = "done"
    /\ UNCHANGED <<moreVars, hashVars, huffVars, rdVars, ar_in, ar_bfs, ar_i, ar_headers, ar_dedupe,
                   ar_writer, ar_created, ar_failed>>

\* the seek or a write of the headers fails
ArchiveHeadersFail ==
    /\ ar_pc = "data"
    /\ ar_i = Len(ar_bfs.all_files)
    /\ ar_file' \in FailedWrites(Run(ar_writer, ArchiveHeaderOps(ar_bfs, ar_headers), <<>>).writes)
    /\ ar_failed' = "headers"
    /\ ar_pc' = "error"
    /\ UNCHANGED <<moreVars, hashVars, huffVars, rdVars, ar_in, ar_bfs, ar_i, ar_headers, ar_dedupe,
                   ar_writer, ar_created>>

NextArchive ==
    \/ ArchivePanic
    \/ ArchivePrepare
    \/ ArchiveCreate
    \/ ArchiveCreateFail
    \/ ArchivePlaceholderFail
    \/ ArchiveFile
    \/ ArchiveOpenFail
    \/ ArchiveWriteFail
    \/ ArchiveHeaders
    \/ ArchiveHeadersFail

SpecArchive == InitArchive /\ [][NextArchive]_vars

(***************************************************************************)
(* The header fields of the stream under read, taken from its bytes.       *)
(***************************************************************************)
StreamMagic == LeValue(rd_stream, 0, 4)
StreamVersion == LeValue(rd_stream, 4, 4)
StreamHashSize ==
    ReadLe(rd_stream, IF rd_format = "Bfs2004a"
                      THEN 16 + (4 * LeValue(rd_stream, 12, 4)) ELSE 16, 4)
InvalidKinds == {"InvalidMagic", "InvalidVersion", "InvalidHashSize"}
ReadErrors == InvalidKinds \cup {"IoError", "ParsingError"}
\* read_archive has returned from a format it supports
ReadDone == rd_pc \in {"read", "listed"} /\ rd_format \in {"Bfs2004a", "Bfs2004b"}

(***************************************************************************)
(* C6 as stated: without force, every one of magic, version and bucket     *)
(* count that mismatches is reported by an error that names it with the    *)
(* expected constant and the value read, whether or not the other two      *)
(* match.                                                                  *)
(***************************************************************************)
C6_EachFieldReported ==
    (ReadDone /\ ~rd_force /\ rd_stream.len >= 16 /\ StreamHashSize # EOF) =>
        /\ StreamMagic # MAGIC =>
               rd_result = Outcome("InvalidMagic", MAGIC, StreamMagic)
        /\ StreamVersion # VERSION =>
               rd_result = Outcome("InvalidVersion", VERSION, StreamVersion)
        /\ StreamHashSize # HASH_SIZE =>
               rd_result = Outcome("InvalidHashSize", HASH_SIZE, StreamHashSize)

(***************************************************************************)
(* C6 amended: without force, the error names the first field that         *)
(* mismatches in the order magic, version, bucket count, and carries that  *)
(* field's expected constant and the value read; no such error is          *)
(* returned when all three match.                                          *)
(***************************************************************************)
C6_FirstMismatchReported ==
    (ReadDone /\ ~rd_force /\ rd_stream.len >= 16) =>
        IF StreamMagic # MAGIC
        THEN rd_result = Outcome("InvalidMagic", MAGIC, StreamMagic)
        ELSE IF StreamVersion # VERSION
        THEN rd_result = Outcome("InvalidVersion", VERSION, StreamVersion)
        ELSE IF StreamHashSize # EOF /\ StreamHashSize # HASH_SIZE
        THEN rd_result = Outcome("InvalidHashSize", HASH_SIZE, StreamHashSize)
        ELSE rd_result.kind \notin InvalidKinds

\* a stream with a wrong version and a wrong bucket count was refused for
\* its version
C6_Witness ==
    /\ ReadDone /\ ~rd_force
    /\ StreamMagic = MAGIC /\ StreamVersion # VERSION
    /\ StreamHashSize \notin {EOF, HASH_SIZE}
    /\ rd_result = Outcome("InvalidVersion", VERSION, StreamVersion)

(***************************************************************************)
(* C7: with force, read_archive never returns InvalidMagic, InvalidVersion *)
(* or InvalidHashSize; without force it returns a reader only if magic,    *)
(* version and hash size of the stream equal the format's constants.       *)
(***************************************************************************)
C7_CheckSkippedIffForce ==
    ReadDone =>
        /\ rd_force => rd_result.kind \notin InvalidKinds
        /\ (~rd_force /\ rd_result.kind = "Reader") =>
               /\ StreamMagic = MAGIC
               /\ StreamVersion = VERSION
               /\ StreamHashSize = HASH_SIZE

\* a forced read of a stream with a wrong magic returned a reader
C7_Witness ==
    /\ ReadDone /\ rd_force
    /\ StreamMagic # MAGIC
    /\ rd_result.kind = "Reader"

(***************************************************************************)
(* C8: a Bfs2004b stream whose fields imply out-of-range reads (a name     *)
(* offset beyond the Huffman data or below the preceding offset, a folder  *)
(* or file index beyond the decoded names, a metadata offset beyond        *)
(* header_end) ends read_archive with a ReadError: no panic, and no reader *)
(* whose listing panics.                                                   *)
(***************************************************************************)
NameOffsetOutOfRange(raw) ==
    \E i \in DOMAIN raw.file_name_offset_table :
        \/ raw.file_name_offset_table[i] > Len(raw.encoded_huffman_data)
        \/ i > 1 /\ raw.file_name_offset_table[i] < raw.file_name_offset_table[i - 1]

NameIndexOutOfRange(raw) ==
    \E i \in DOMAIN raw.file_headers :
        \/ raw.file_headers[i].folder_id >= Len(raw.file_name_offset_table)
        \/ raw.file_headers[i].file_id >= Len(raw.file_name_offset_table)

MetadataBeyondHeaderEnd(stream) ==
    \E archive_header \in {ArchiveHeaderRead(stream)},
       hash_table \in {HashTableRead2004b(stream, 16)} :
        /\ archive_header.kind = "Ok" /\ hash_table.kind = "Ok"
        /\ \E metadata_header \in
                 {MetadataHeaderRead(stream, calculate_metadata_start(hash_table.val))} :
              /\ metadata_header.kind = "Ok"
              /\ \E f \in DOMAIN metadata_header.val :
                     calculate_metadata_start(hash_table.val) + metadata_header.val[f]
                         > archive_header.val.header_end

ImpliesOutOfRangeReads(stream) ==
    \/ MetadataBeyondHeaderEnd(stream)
    \/ \E raw \in {RawArchiveRead2004b(stream, FALSE)} :
          raw.kind = "Ok" /\ (NameOffsetOutOfRange(raw.val) \/ NameIndexOutOfRange(raw.val))

C8_OutOfRangeIsReadError ==
    (rd_pc \in {"read", "listed"} /\ rd_format = "Bfs2004b"
        /\ ImpliesOutOfRangeReads(rd_stream))
    => rd_result.kind \in ReadErrors


(***************************************************************************)
(* C2: lua_hash(name) equals the reference hash (accumulator seeded with   *)
(* the length, stride floor(len/32)+1 walking backward from the last byte, *)
(* acc = (acc XOR ((acc<<5)+(acc>>2)+byte)) mod 2^32, result acc mod 997)  *)
(* for every byte string, and so lies in [0, 997).                         *)
(***************************************************************************)
C2_LuaHashIsReference ==
    hash_out # -1 => /\ hash_out = RefHash(hash_in)
                     /\ hash_out \in 0..(HASH_SIZE - 1)

\* a name long enough for stride 3 has been hashed
C2_Witness == hash_out # -1 /\ Len(hash_in) >= 64

(***************************************************************************)
(* C3: for every dictionary built by create_huffman_tree and every byte    *)
(* string over the bytes of its names, decoding the encoding of the string *)
(* with the string's length returns the string.                            *)
(***************************************************************************)
C3_HuffmanRoundTrip == huff_pc = "coded" => huff_decoded = huff_data

\* the same, for names that hold at least two distinct bytes
C3_RoundTripTwoSymbols ==
    (huff_pc = "coded" /\ Cardinality(Range(Flatten(huff_names))) >= 2)
        => huff_decoded = huff_data

(***************************************************************************)
(* The built archive: the name and the place of its file headers.          *)
(***************************************************************************)
\* the logical name of a file header, from its folder and its file id
HeaderName(file_header) ==
    ar_bfs.uniques[file_header.folder_id + 1] \o <<47>>
        \o ar_bfs.uniques[file_header.file_id + 1]

\* the offset in the archive of the k-th file header written
HeaderOffset(k) ==
    ar_bfs.file_name_table_header.file_headers_offset + BfsHeaderBytes
        + (FileInfoTableEntryBytes * HASH_SIZE)
        + SumSeq([m \in 1..(k - 1) |-> Len(FileHeaderToBytes(ar_headers[m]))])

\* the file headers that the entry of a bucket points at
BucketRecords(entry) ==
    {k \in DOMAIN ar_headers :
        \E first \in DOMAIN ar_headers :
            /\ HeaderOffset(first) = entry.file_header_offset
            /\ first <= k
            /\ k < first + entry.file_count}

\* the path a file header was made from
HeaderPath(k) == ar_bfs.filenames[ar_bfs.all_files[k]]

ArchiveBuilt == ar_pc = "done"

\* C1: in a build with deduplication, two distinct paths with the same
\* bytes and the same compression decision have the same data offset and
\* the same packed size in their file headers, whatever was processed
\* before or between them.
C1_DedupSharesData ==
    (ArchiveBuilt /\ ar_in.deduplicate) =>
        \A i, j \in DOMAIN ar_headers :
            (/\ i # j
             /\ FileContents(HeaderPath(i)) = FileContents(HeaderPath(j))
             /\ should_compress_file(ar_in.level, ar_bfs.files_to_compress, ar_bfs.all_files[i])
                    = should_compress_file(ar_in.level, ar_bfs.files_to_compress,
                                           ar_bfs.all_files[j]))
            => /\ ar_headers[i].data_offset = ar_headers[j].data_offset
               /\ ar_headers[i].packed_size = ar_headers[j].packed_size

\* C4: for every list of input files the counts of the 997 entries of the
\* hash table add up to the file_count of the archive header.
C4_CountsSumToFileCount ==
    ArchiveBuilt =>
        SumSeq([i \in 1..Cardinality(DOMAIN ar_bfs.file_info_table) |->
                   ar_bfs.file_info_table[Ascending(DOMAIN ar_bfs.file_info_table)[i]].file_count])
            = ar_bfs.bfs_header.file_count

\* C5: the file headers of every bucket are one contiguous run, are the
\* files whose name hashes to the bucket, and ascend by logical name.
C5_BucketsSortedByName ==
    ArchiveBuilt =>
        \A h \in DOMAIN ar_bfs.file_info_table :
            \E records \in {BucketRecords(ar_bfs.file_info_table[h])} :
                /\ Cardinality(records) = ar_bfs.file_info_table[h].file_count
                /\ {HeaderName(ar_headers[k]) : k \in records}
                       = {name \in DOMAIN ar_bfs.filenames : lua_hash(name) = h}
                /\ \A k, m \in records :
                       k < m => LessStr(HeaderName(ar_headers[k]), HeaderName(ar_headers[m]))

\* C9: when the build stops with an error after the destination was
\* created, the bytes left in the destination do not pass check_archive and
\* a non-forced read_archive of them gives no reader.
C9_PartialOutputIsInvalid ==
    (ar_pc = "error" /\ ar_created) =>
        /\ Outcome("Ok", 0, 0) \notin check_archive("Bfs2004b", ar_file)
        /\ \A checks \in BOOLEAN :
               \A r \in read_archive(ar_file, "Bfs2004b", FALSE, MaxDictSteps, checks) :
                   r.outcome.kind # "Reader"

\* C10: the crc32 of every file header that carries a checksum is the
\* JAMCRC of the bytes stored at the data offset of the file: the packed
\* bytes of a compressed file, the raw bytes of a stored one.
C10_CrcOfStoredBytes ==
    ArchiveBuilt =>
        \A k \in DOMAIN ar_headers :
            BitAnd(ar_headers[k].method, 4) # 0 =>
                ar_headers[k].crc32
                    = JAMCRC(FileBytes(ar_file, ar_headers[k].data_offset,
                                       ar_headers[k].packed_size))

\* the turns of the loop that are done: positions in all_files
HeadersDone == {ar_bfs.sorted_indices[m] : m \in 1..ar_i}

ArchiveRunning == ar_pc \in {"data", "done"}

\* C11: every input file of zero length is built with unpacked size 0,
\* packed size 0 and the store method.
C11_ZeroLengthIsStoredEmpty ==
    ArchiveRunning =>
        \A k \in HeadersDone :
            FileContents(HeaderPath(k)) = <<>> =>
                /\ ar_headers[k].unpacked_size = 0
                /\ ar_headers[k].packed_size = 0
                /\ ~is_compressed(ar_headers[k])

\* the number of additional copies the copy filters ask for a name
CopiesAsked(name) ==
    apply_copy_filters({name}, ar_in.copy_filters)[name][1]
        + apply_copy_filters({name}, ar_in.copy_filters)[name][2]

\* C12: the file header of a file for which the copy filters ask N
\* additional copies records N copy offsets, the k-th directly after the
\* copy before it, and the bytes at every one of them are the bytes at the
\* data offset.
C12_CopyOffsetsRecorded ==
    ArchiveBuilt =>
        \A k \in DOMAIN ar_headers :
            /\ Len(ar_headers[k].file_copies_offsets) = CopiesAsked(ar_bfs.all_files[k])
            /\ \A c \in DOMAIN ar_headers[k].file_copies_offsets :
                   /\ ar_headers[k].file_copies_offsets[c]
                          = ar_headers[k].data_offset + (c * ar_headers[k].packed_size)
                   /\ FileBytes(ar_file, ar_headers[k].file_copies_offsets[c],
                                ar_headers[k].packed_size)
                          = FileBytes(ar_file, ar_headers[k].data_offset,
                                      ar_headers[k].packed_size)

\* C19: every file header with a store method has packed_size equal to
\* unpacked_size, also when deduplication filled in its method, offset and
\* size.
C19_StoredPackedIsUnpacked ==
    ArchiveRunning =>
        \A k \in HeadersDone :
            ~is_compressed(ar_headers[k]) =>
                ar_headers[k].packed_size = ar_headers[k].unpacked_size

\* C19: an archive is built in which a stored file of two bytes took its
\* method, offset and size from the file before it by deduplication.
C19_Witness ==
    /\ ArchiveBuilt
    /\ ar_in.deduplicate
    /\ \E i, j \in DOMAIN ar_headers :
           /\ i # j
           /\ ~is_compressed(ar_headers[i])
           /\ ~is_compressed(ar_headers[j])
           /\ ar_headers[i].data_offset = ar_headers[j].data_offset
           /\ ar_headers[i].unpacked_size = 2
           /\ ar_headers[j].packed_size = 2

\* the formats whose reading the crate documentation marks as done
DocumentedReadable == {"Bzf2001", "Bfs2004a", "Bfs2004b", "Bfs2007"}

\* C18: for every format documented as readable, read_archive of a stream
\* whose fields imply no out-of-range read returns a reader or a ReadError;
\* it does not panic because of the format.
C18_ReadableFormatsReturn ==
    (/\ rd_pc \in {"read", "listed"}
     /\ rd_format \in DocumentedReadable
     /\ ~ImpliesOutOfRangeReads(rd_stream))
    => rd_result.kind \in {"Reader"} \cup ReadErrors

(***************************************************************************)
(* Specification SpecDict: deserialize_huffman_dict applied to serialized  *)
(* dictionaries of up to MaxDictLen entries and to one of five entries     *)
(* with a branch below the root.                                           *)
(***************************************************************************)
DictValues == {1, 2, 3, 97}

DictEntries == [node_type : {BRANCH, LEAF}, value : DictValues]

\* root, leaf "a", branch, leaf "b", leaf "c"
DeepDict ==
    <<[node_type |-> BRANCH, value |-> 2], [node_type |-> LEAF, value |-> 97],
      [node_type |-> BRANCH, value |-> 4], [node_type |-> LEAF, value |-> 98],
      [node_type |-> LEAF, value |-> 99]>>

SerializedDicts == SeqsUpTo(DictEntries, MaxDictLen) \cup {DeepDict}

InitDict ==
    /\ RestIdle
    /\ HashIdle
    /\ HuffIdle
    /\ RdIdle
    /\ ArIdle
    /\ V1Idle
    /\ ExIdle
    /\ BdIdle
    /\ dd_serialized \in SerializedDicts
    /\ dd_result = Failed("None")

\* deserialize_huffman_dict(serialized)
DictDeserialize ==
    /\ dd_result = Failed("None")
    /\ \E overflow_checks \in BOOLEAN :
          dd_result' = deserialize_huffman_dict(dd_serialized, MaxDictSteps, overflow_checks)
    /\ UNCHANGED <<restVars, hashVars, huffVars, rdVars, arVars, dd_serialized, v1Vars, exVars, bdVars>>

NextDict == DictDeserialize

SpecDict == InitDict /\ [][NextDict]_vars

(***************************************************************************)
(* V1BfsFile::read_bfs_from_file, the conversion of the file names (lines  *)
(* 116-157).  The records are the raw names and the data offsets of the    *)
(* file headers as the loop before it read them.                           *)
(***************************************************************************)
\* the bytes that is_valid accepts: from space to "~"
IsValidName(raw_file_name) ==
    /\ raw_file_name # <<>>
    /\ \A i \in DOMAIN raw_file_name : raw_file_name[i] >= 32 /\ raw_file_name[i] < 127

HexDigit(d) == IF d < 10 THEN 48 + d ELSE 87 + d

\* format!("{:08x}.dat", data_offset)
PlaceholderName(data_offset) ==
    [i \in 1..8 |->
        HexDigit((data_offset
                    \div <<268435456, 16777216, 1048576, 65536, 4096, 256, 16, 1>>[i]) % 16)]
        \o <<46, 100, 97, 116>>

\* the loop over the names: CString::new fails on a name with a zero byte
\* and `?` returns the error; a valid name is inserted as it is, any other
\* as the placeholder of its data offset
RECURSIVE ConvertFileNames(_, _, _)
ConvertFileNames(files, index, file_name_to_header_map) ==
    IF index >= Len(files) THEN Parsed(file_name_to_header_map)
    ELSE IF 0 \in Range(files[index + 1].raw_file_name) THEN Failed("IoError")
    ELSE ConvertFileNames(files, index + 1,
            DictInsert(file_name_to_header_map,
                       IF IsValidName(files[index + 1].raw_file_name)
                       THEN files[index + 1].raw_file_name
                       ELSE PlaceholderName(files[index + 1].data_offset),
                       index))

\* the names converted, then file_headers.get(0).unwrap()
read_bfs_from_file(files) ==
    Bind(ConvertFileNames(files, 0, <<>>), LAMBDA converted :
        IF converted.kind # "Ok" THEN converted
        ELSE IF files = <<>> THEN Failed("Panic")
        ELSE converted)

(***************************************************************************)
(* Specification SpecV1Names: read_bfs_from_file on archives of up to      *)
(* MaxV1Files files with names of up to MaxV1NameLen bytes.                *)
(***************************************************************************)
V1NameBytes == {0, 31, 32, 97, 126, 127, 200}

V1Offsets == {0, 6699}

V1Records == [raw_file_name : SeqsUpTo(V1NameBytes, MaxV1NameLen), data_offset : V1Offsets]

InitV1Names ==
    /\ RestIdle
    /\ HashIdle
    /\ HuffIdle
    /\ RdIdle
    /\ ArIdle
    /\ DictIdle
    /\ ExIdle
    /\ BdIdle
    /\ v1_files \in SeqsUpTo(V1Records, MaxV1Files)
    /\ v1_result = Failed("None")

V1ReadBfsFromFile ==
    /\ v1_result = Failed("None")
    /\ v1_result' = read_bfs_from_file(v1_files)
    /\ UNCHANGED <<restVars, hashVars, huffVars, rdVars, arVars, dictVars, v1_files, exVars, bdVars>>

NextV1Names == V1ReadBfsFromFile

SpecV1Names == InitV1Names /\ [][NextV1Names]_vars

(***************************************************************************)
(* Archives for the calls of a reader: files of the folder "a" with the    *)
(* names "b" and "ab", the data of the i-th file in a slot of 32 bytes     *)
(* from offset 8192 on.  A file is [name, flags, file_copies,              *)
(* unpacked_size, packed_size, crc32, data].                               *)
(***************************************************************************)
NameB == <<98>>
NameAb == <<97, 98>>
FolderA == <<97, 47>>

ExDataOffset(i) == 8192 + (32 * (i - 1))

ExFileHeaders(format, files) ==
    [i \in DOMAIN files |->
        IF format = "Bfs2004a"
        THEN [flags |-> files[i].flags, file_copies |-> files[i].file_copies,
              data_offset |-> ExDataOffset(i), unpacked_size |-> files[i].unpacked_size,
              packed_size |-> files[i].packed_size, crc32 |-> files[i].crc32,
              file_name |-> FolderA \o files[i].name,
              file_copies_offsets |-> [c \in 1..files[i].file_copies |-> ExDataOffset(i) + 16]]
        ELSE [flags |-> files[i].flags, file_copies |-> files[i].file_copies,
              data_offset |-> ExDataOffset(i), unpacked_size |-> files[i].unpacked_size,
              packed_size |-> files[i].packed_size, crc32 |-> files[i].crc32,
              folder_id |-> 0, file_id |-> IF files[i].name = NameB THEN 1 ELSE 2,
              file_copies_offsets |-> [c \in 1..files[i].file_copies |-> ExDataOffset(i) + 16]]]

RECURSIVE LandAll(_, _, _)
LandAll(stream, files, i) ==
    IF i > Len(files) THEN stream
    ELSE LandAll(IF files[i].data = <<>> THEN stream
                 ELSE Land(stream, ExDataOffset(i), Chunk(files[i].data)),
                 files, i + 1)

\* the archive of the files in the layout of the format
ExStream(format, files) ==
    LandAll(IF format = "Bfs2004a"
            THEN Stream2004a(MAGIC, VERSION, HASH_SIZE, ExFileHeaders(format, files), 0)
            ELSE Stream2004b(MAGIC, VERSION, HASH_SIZE, NameTable2004b,
                             ExFileHeaders(format, files), 0, NoMove, 0),
            files, 1)

\* the readers read_archive returns for a stream, without force
ReadersOf(format, stream) ==
    {r.reader : r \in {q \in UNION {read_archive(stream, format, FALSE, MaxDictSteps, c) :
                                       c \in BOOLEAN} : q.outcome.kind = "Reader"}}

(***************************************************************************)
(* Specification SpecInfo: file_info and multiple_file_info on the readers *)
(* of archives of up to MaxInfoFiles files with every combination of the   *)
(* flags 0x01, 0x04 and 0x08 and a flag without meaning.                   *)
(***************************************************************************)
InfoFlags == {0, 1, 2, 4, 5, 9, 13}

InfoFiles ==
    [name : {NameB, NameAb}, flags : InfoFlags, file_copies : {0, 1}, unpacked_size : {9},
     packed_size : {5}, crc32 : {78}, data : {<<>>}]

\* names to ask for: "a/b", "a/ab" and the absent "a/a"
QueryNames == {FolderA \o NameB, FolderA \o NameAb, FolderA \o <<97>>}

QueryLists ==
    {<<>>, <<FolderA \o NameB>>, <<FolderA \o <<97>>>>,
     <<FolderA \o NameAb, FolderA \o NameB>>,
     <<FolderA \o NameB, FolderA \o <<97>>, FolderA \o NameB>>}

InitInfo ==
    /\ RestIdle
    /\ HashIdle
    /\ HuffIdle
    /\ RdIdle
    /\ ArIdle
    /\ DictIdle
    /\ V1Idle
    /\ BdIdle
    /\ ex_pc = "start"
    /\ ex_format \in {"Bfs2004a", "Bfs2004b"}
    /\ \E files \in SeqsUpTo(InfoFiles, MaxInfoFiles) :
          /\ ex_stream = ExStream(ex_format, files)
          /\ ex_reader \in ReadersOf(ex_format, ex_stream)
    /\ ex_asked = <<>>
    /\ ex_infos = <<>>
    /\ ex_queue = <<>>
    /\ ex_calls = <<>>
    /\ ex_outputs = <<>>
    /\ ex_result = "None"
    /\ ex_ops = <<>>

\* reader.file_info(file_name)
FileInfoCall ==
    /\ ex_pc = "start"
    /\ \E file_name \in QueryNames :
          /\ ex_asked' = <<file_name>>
          /\ ex_infos' = file_info(ex_format, ex_reader, file_name)
    /\ ex_pc' = "file_info"
    /\ UNCHANGED <<restVars, hashVars, huffVars, rdVars, arVars, dictVars, v1Vars, bdVars, ex_format,
                   ex_stream, ex_reader, ex_queue, ex_calls, ex_outputs, ex_result, ex_ops>>

\* reader.multiple_file_info(file_names)
MultipleFileInfoCall ==
    /\ ex_pc = "start"
    /\ \E file_names_asked \in QueryLists :
          /\ ex_asked' = file_names_asked
          /\ ex_infos' = multiple_file_info(ex_format, ex_reader, file_names_asked)
    /\ ex_pc' = "multiple_file_info"
    /\ UNCHANGED <<restVars, hashVars, huffVars, rdVars, arVars, dictVars, v1Vars, bdVars, ex_format,
                   ex_stream, ex_reader, ex_queue, ex_calls, ex_outputs, ex_result, ex_ops>>

NextInfo == FileInfoCall \/ MultipleFileInfoCall

SpecInfo == InitInfo /\ [][NextInfo]_vars

(***************************************************************************)
(* Extraction (archive_reader.rs extract_files, compression.rs).           *)
(***************************************************************************)
\* reader.seek(SeekFrom::Start(offset)) and reader.take(size): the bytes of the
\* stream from offset on, at most size of them
Take(stream, offset, size) ==
    [i \in 1..Min(size, IF offset < stream.len THEN stream.len - offset ELSE 0) |->
        StreamByte(stream, (offset + i) - 1)]

\* ZlibDecoder read to its end by io::copy, for the streams of zlib_compress
\* (one stored block) and damaged ones: the bytes written and the result.  A
\* stream that ends early is decoded as far as it goes; whether the end is
\* then an error is the decoder's (truncated_is_error).
ZlibDecode(input, truncated_is_error) ==
    IF Len(input) < 2
    THEN [written |-> <<>>, ok |-> ~truncated_is_error]
    ELSE IF input[1] # 120 \/ ((input[1] * 256) + input[2]) % 31 # 0
    THEN [written |-> <<>>, ok |-> FALSE]
    ELSE IF Len(input) < 7
    THEN [written |-> <<>>, ok |-> ~truncated_is_error]
    ELSE IF input[3] # 1 \/ (input[4] + (256 * input[5])) + (input[6] + (256 * input[7])) # 65535
    THEN [written |-> <<>>, ok |-> FALSE]
    ELSE Bind(input[4] + (256 * input[5]), LAMBDA length :
            IF Len(input) < (7 + length) + 4
            THEN [written |-> SubSeq(input, 8, Min(7 + length, Len(input))),
                  ok |-> ~truncated_is_error]
            ELSE [written |-> SubSeq(input, 8, 7 + length),
                  ok |-> SubSeq(input, 8 + length, 11 + length)
                             = Adler32(SubSeq(input, 8, 7 + length), 1, 0)])

\* extract_data: the bytes written to the writer and whether it returned Ok
extract_data(stream, offset, size, method, truncated_is_error) ==
    IF method = "None" THEN [written |-> Take(stream, offset, size), ok |-> TRUE]
    ELSE ZlibDecode(Take(stream, offset, size), truncated_is_error)

\* what extract_files asks of the reader for the k-th file: the seek to its
\* offset and the read of up to size bytes from where the reader stands
ReaderSeek(k, to) == [kind |-> "seek", file |-> k, at |-> to, size |-> 0]
ReaderRead(k, at, size) == [kind |-> "read", file |-> k, at |-> at, size |-> size]

\* the try_for_each of extract_files from the k-th (name, info) on; File::create
\* fails for the file create_fails_at.  The callback gets the name and the
\* info.
RECURSIVE ExtractEach(_, _, _, _, _, _, _, _)
ExtractEach(stream, file_info_list, k, create_fails_at, truncated_is_error, calls, outputs, ops) ==
    IF k > Len(file_info_list)
    THEN [result |-> "Ok", calls |-> calls, outputs |-> outputs, ops |-> ops]
    ELSE IF k = create_fails_at
    THEN [result |-> "CreateError", calls |-> calls, outputs |-> outputs, ops |-> ops]
    ELSE Bind([position |-> file_info_list[k][2].offset], LAMBDA reader :
         Bind([e |-> extract_data(stream, reader.position,
                                  file_info_list[k][2].compressed_size,
                                  file_info_list[k][2].compression_method, truncated_is_error),
               ops |-> ops \o <<ReaderSeek(k, file_info_list[k][2].offset),
                                ReaderRead(k, reader.position,
                                           file_info_list[k][2].compressed_size)>>],
              LAMBDA l :
                  IF ~l.e.ok
                  THEN [result |-> "DataError", calls |-> calls,
                        outputs |-> Append(outputs, [path |-> file_info_list[k][1],
                                                     data |-> l.e.written]),
                        ops |-> l.ops]
                  ELSE ExtractEach(stream, file_info_list, k + 1, create_fails_at,
                                   truncated_is_error,
                                   Append(calls, [file_name |-> file_info_list[k][1],
                                                  archived_file_info |-> file_info_list[k][2]]),
                                   Append(outputs, [path |-> file_info_list[k][1],
                                                    data |-> l.e.written]),
                                   l.ops)))

\* the try_for_each with every seek made before the first read: each read
\* starts where the last seek left the reader
RECURSIVE ExtractEachFrom(_, _, _, _, _, _, _, _)
ExtractEachFrom(stream, file_info_list, k, position, truncated_is_error, calls, outputs, ops) ==
    IF k > Len(file_info_list)
    THEN [result |-> "Ok", calls |-> calls, outputs |-> outputs, ops |-> ops]
    ELSE Bind(extract_data(stream, position, file_info_list[k][2].compressed_size,
                           file_info_list[k][2].compression_method, truncated_is_error),
              LAMBDA e :
                  ExtractEachFrom(stream, file_info_list, k + 1,
                                  position + file_info_list[k][2].compressed_size,
                                  truncated_is_error,
                                  Append(calls, [file_name |-> file_info_list[k][1],
                                                 archived_file_info |-> file_info_list[k][2]]),
                                  Append(outputs, [path |-> file_info_list[k][1],
                                                   data |-> e.written]),
                                  Append(ops, ReaderRead(k, position,
                                                         file_info_list[k][2].compressed_size))))

extract_files_seeks_first(format, reader, stream, file_names_asked, create_fails_at, truncated_is_error) ==
    Bind(multiple_file_info(format, reader, file_names_asked), LAMBDA file_info_list :
        IF file_info_list.kind # "Ok" \/ file_info_list.val = <<>>
        THEN [result |-> "Panic", calls |-> <<>>, outputs |-> <<>>, file_info |-> <<>>,
              ops |-> <<>>]
        ELSE Bind(ExtractEachFrom(stream, file_info_list.val, 1,
                                  file_info_list.val[Len(file_info_list.val)][2].offset,
                                  truncated_is_error, <<>>, <<>>,
                                  [k \in DOMAIN file_info_list.val |->
                                      ReaderSeek(k, file_info_list.val[k][2].offset)]),
                  LAMBDA r : [result |-> r.result, calls |-> r.calls, outputs |-> r.outputs,
                              file_info |-> file_info_list.val, ops |-> r.ops]))

\* ArchiveReader::extract_files
extract_files(format, reader, stream, file_names_asked, create_fails_at, truncated_is_error) ==
    Bind(multiple_file_info(format, reader, file_names_asked), LAMBDA file_info_list :
        IF file_info_list.kind # "Ok"
        THEN [result |-> "Panic", calls |-> <<>>, outputs |-> <<>>, file_info |-> <<>>,
              ops |-> <<>>]
        ELSE Bind(ExtractEach(stream, file_info_list.val, 1, create_fails_at,
                              truncated_is_error, <<>>, <<>>, <<>>),
                  LAMBDA r : [result |-> r.result, calls |-> r.calls, outputs |-> r.outputs,
                              file_info |-> file_info_list.val, ops |-> r.ops]))

(***************************************************************************)
(* Specification SpecExtract: extract_files on the readers of archives of  *)
(* up to MaxInfoFiles files, each stored or compressed, its data as long   *)
(* as its header says, of another length, damaged or cut short.            *)
(***************************************************************************)
ExtractContent == <<65, 66>>

DamagedZlib == <<0>> \o Tail(zlib_compress(ExtractContent))

ExtractCases ==
    {[flags |-> 0, unpacked_size |-> 2, packed_size |-> 2, data |-> ExtractContent],
     [flags |-> 0, unpacked_size |-> 3, packed_size |-> 2, data |-> ExtractContent],
     [flags |-> 1, unpacked_size |-> 2, packed_size |-> Len(zlib_compress(ExtractContent)),
      data |-> zlib_compress(ExtractContent)],
     [flags |-> 1, unpacked_size |-> 3, packed_size |-> Len(zlib_compress(ExtractContent)),
      data |-> zlib_compress(ExtractContent)],
     [flags |-> 1, unpacked_size |-> 2, packed_size |-> Len(DamagedZlib), data |-> DamagedZlib],
     [flags |-> 1, unpacked_size |-> 2, packed_size |-> Len(zlib_compress(ExtractContent)) - 5,
      data |-> zlib_compress(ExtractContent)]}

ExtractFilesOf ==
    {[name |-> n, flags |-> c.flags, file_copies |-> 0, unpacked_size |-> c.unpacked_size,
      packed_size |-> c.packed_size, crc32 |-> 78, data |-> c.data] :
        n \in {NameB, NameAb}, c \in ExtractCases}

ExtractLists ==
    {<<FolderA \o NameB>>, <<FolderA \o <<97>>>>, <<FolderA \o NameAb, FolderA \o NameB>>}

InitExtract ==
    /\ RestIdle
    /\ HashIdle
    /\ HuffIdle
    /\ RdIdle
    /\ ArIdle
    /\ DictIdle
    /\ V1Idle
    /\ BdIdle
    /\ ex_pc = "start"
    /\ ex_format \in {"Bfs2004a", "Bfs2004b"}
    /\ \E files \in SeqsUpTo(ExtractFilesOf, MaxInfoFiles) :
          /\ ex_stream = ExStream(ex_format, files)
          /\ ex_reader \in ReadersOf(ex_format, ex_stream)
    /\ ex_asked = <<>>
    /\ ex_infos = <<>>
    /\ ex_queue = <<>>
    /\ ex_calls = <<>>
    /\ ex_outputs = <<>>
    /\ ex_result = "None"
    /\ ex_ops = <<>>

\* reader.extract_files(file_names, folder_name, callback)
ExtractFiles ==
    /\ ex_pc = "start"
    /\ \E file_names_asked \in ExtractLists, create_fails_at \in 0..MaxInfoFiles,
          truncated_is_error \in BOOLEAN :
          \E r \in {extract_files(ex_format, ex_reader, ex_stream, file_names_asked,
                                  create_fails_at, truncated_is_error)} :
              /\ ex_asked' = file_names_asked
              /\ ex_queue' = r.file_info
              /\ ex_calls' = r.calls
              /\ ex_outputs' = r.outputs
              /\ ex_result' = r.result
              /\ ex_ops' = r.ops
    /\ ex_pc' = "extracted"
    /\ UNCHANGED <<restVars, hashVars, huffVars, rdVars, arVars, dictVars, v1Vars, bdVars, ex_format,
                   ex_stream, ex_reader, ex_infos>>

NextExtract == ExtractFiles

SpecExtract == InitExtract /\ [][NextExtract]_vars

(***************************************************************************)
(* The builders of the revisions v1 and v3 (v1/mod.rs, v3/mod.rs): the     *)
(* loop over the files, which writes the data and fills in the file        *)
(* headers.  Positions count from the first byte of data.                  *)
(***************************************************************************)
\* V1BfsFile::write_file_to_output: the file header, and the position of
\* the writer after the data and its copies
V1WriteFileToOutput(format, level, files_to_compress, file_name, data, file_header, position) ==
    Bind([compress |-> should_compress_file(level, files_to_compress, file_name),
          copies |-> file_header.file_copies + file_header.file_copies_a], LAMBDA l :
        Bind(IF l.compress THEN zlib_compress(data) ELSE data, LAMBDA stored :
            [file_header |->
                [file_header EXCEPT
                    !.method = IF l.compress THEN (IF format = "V1" THEN 5 ELSE 1)
                               ELSE (IF format = "V1" THEN 4 ELSE 0),
                    !.crc32 = IF format = "V1" THEN JAMCRC(stored) ELSE <<0, 0, 0, 0>>,
                    !.packed_size = IF l.compress THEN Len(stored) ELSE file_header.unpacked_size,
                    !.file_copies_offsets =
                        [c \in 1..l.copies |-> position + (c * Len(stored))]],
             position |-> position + ((1 + l.copies) * Len(stored))]))

\* the loop over the files of V1BfsFile::archive from the k-th file on.
\* A file is [name, path, data]: its name in the archive, where it was read
\* from, its content.  The deduplication asks should_compress_file with
\* the path, write_file_to_output with the name; _compression is not read.
RECURSIVE V1ArchiveFiles(_, _, _, _, _, _)
V1ArchiveFiles(request, k, position, dedupe_hash_to_header, cached, file_headers) ==
    IF k > Len(request.files) THEN Parsed(file_headers)
    ELSE Bind([data |-> request.files[k].data,
               file_header |-> [method |-> 0, file_copies |-> request.file_copies,
                                file_copies_a |-> request.file_copies_a,
                                data_offset |-> position,
                                unpacked_size |-> Len(request.files[k].data),
                                packed_size |-> 0, crc32 |-> <<0, 0, 0, 0>>,
                                file_name_length |-> Len(request.files[k].name),
                                file_copies_offsets |-> <<>>]], LAMBDA f :
        Bind(V1WriteFileToOutput(request.format, request.level, request.files_to_compress,
                                 request.files[k].name, f.data, f.file_header, position),
             LAMBDA written :
            IF request.deduplicate /\ xxh64(f.data, 0) \in cached
            THEN Bind(dedupe_hash_to_header[xxh64(f.data, 0)], LAMBDA cached_header :
                    IF /\ should_compress_file(request.level, request.files_to_compress,
                                                request.files[k].path)
                            = is_compressed(cached_header)
                       /\ cached_header.unpacked_size = f.file_header.unpacked_size
                    THEN V1ArchiveFiles(request, k + 1, position, dedupe_hash_to_header, cached,
                             Append(file_headers,
                                    [f.file_header EXCEPT
                                        !.crc32 = cached_header.crc32,
                                        !.method = cached_header.method,
                                        !.packed_size = cached_header.packed_size,
                                        !.data_offset = cached_header.data_offset]))
                    ELSE V1ArchiveFiles(request, k + 1, written.position,
                                        dedupe_hash_to_header, cached,
                                        Append(file_headers, written.file_header)))
            ELSE IF request.deduplicate
            THEN V1ArchiveFiles(request, k + 1, written.position,
                     [h \in cached \cup {xxh64(f.data, 0)} |->
                         IF h = xxh64(f.data, 0) THEN written.file_header
                         ELSE dedupe_hash_to_header[h]],
                     cached \cup {xxh64(f.data, 0)},
                     Append(file_headers, written.file_header))
            ELSE V1ArchiveFiles(request, k + 1, written.position, dedupe_hash_to_header,
                                cached, Append(file_headers, written.file_header))))

\* the loop over the files of V3BfsFile::archive from the k-th file on;
\* _deduplicate and _compression are not read
RECURSIVE V3ArchiveFiles(_, _, _, _)
V3ArchiveFiles(request, k, position, file_headers) ==
    IF k > Len(request.files) THEN Parsed(file_headers)
    ELSE Bind([compress |-> request.files[k].name \in request.files_to_compress
                                /\ request.level # 0,
               copies |-> request.file_copies + request.file_copies_a], LAMBDA l :
        Bind(IF l.compress THEN zlib_compress(request.files[k].data)
             ELSE request.files[k].data, LAMBDA stored :
            V3ArchiveFiles(request, k + 1, position + ((1 + l.copies) * Len(stored)),
                Append(file_headers,
                       [DefaultFileHeader EXCEPT
                           !.file_copies = request.file_copies,
                           !.file_copies_a = request.file_copies_a,
                           !.data_offset = position,
                           !.unpacked_size = Len(request.files[k].data),
                           !.method = IF l.compress THEN 1 ELSE 0,
                           !.packed_size = IF l.compress THEN Len(stored)
                                           ELSE Len(request.files[k].data),
                           !.file_copies_offsets =
                               [c \in 1..l.copies |-> position + (c * Len(stored))]]))))

\* the BYTE_COUNT of the v1 structs; that of the FileHeader is the size of
\* the fields before the name in the file header of formats/bfs2004a
V1BfsHeaderBytes == 16
V1FileInfoTableEntryBytes == 4
V1FileHeaderBytes == 22

\* V1BfsFile::archive: the offsets computed for the file headers.  The files
\* are taken in the order of their names; header_offsets has the value of
\* current_file_header_offset pushed for each, file_header_offset_table those
\* values in the order of the buckets, running its value after the loop.
V1Layout(request) ==
    Bind(V1BfsHeaderBytes + (4 * Len(request.files)) + 4
             + (V1FileInfoTableEntryBytes * HASH_SIZE), LAMBDA file_header_start_offset :
    Bind([k \in DOMAIN request.files |->
             file_header_start_offset
                 + SumSeq([m \in 1..(k - 1) |->
                              V1FileHeaderBytes + Len(request.files[m].name)])],
         LAMBDA header_offsets :
        [file_header_start_offset |-> file_header_start_offset,
         data_offset |->
             file_header_start_offset
                 + SumSeq([k \in DOMAIN request.files |->
                              V1FileHeaderBytes + (request.file_copies * 4)
                                  + (request.file_copies_a * 4)])
                 + SumSeq([k \in DOMAIN request.files |-> Len(request.files[k].name)]),
         header_offsets |-> header_offsets,
         file_header_offset_table |->
             Flatten([i \in 1..Cardinality({lua_hash(f.name) : f \in Range(request.files)}) |->
                 Bind(Ascending({lua_hash(f.name) : f \in Range(request.files)})[i], LAMBDA hash :
                     [j \in 1..Cardinality({k \in DOMAIN request.files :
                                               lua_hash(request.files[k].name) = hash}) |->
                         header_offsets[Ascending({k \in DOMAIN request.files :
                                            lua_hash(request.files[k].name) = hash})[j]]])]),
         running |-> file_header_start_offset
                         + SumSeq([m \in DOMAIN request.files |->
                                      V1FileHeaderBytes + Len(request.files[m].name)])]))

\* FileHeader::to_bytes of v1 followed by the name, as the header pass
\* writes them: the size on disk
V1HeaderSizeOnDisk(file_header) ==
    V1FileHeaderBytes + file_header.file_name_length
        + (4 * Len(file_header.file_copies_offsets))

\* V1BfsFile::archive and V3BfsFile::archive: Ok with the file headers
\* written
archive(request) ==
    IF request.format = "V3" THEN V3ArchiveFiles(request, 1, 0, <<>>)
    ELSE V1ArchiveFiles(request, 1, 0, <<>>, {}, <<>>)

(***************************************************************************)
(* Specification SpecBuild: archive of the revisions v1 and v3 for two     *)
(* files, with every compression, with and without deduplication.          *)
(***************************************************************************)
NameFileA == <<97>>
NameFileC == <<99>>

\* the folder the files are read from
InputFolder == <<105, 110, 47>>

\* two files of the same or of another content, their paths their names or
\* below the input folder
BuildFiles ==
    {<<[name |-> NameFileA, path |-> folder \o NameFileA, data |-> <<65, 65>>],
       [name |-> NameFileC, path |-> folder \o NameFileC, data |-> second]>> :
        folder \in {<<>>, InputFolder}, second \in {<<65, 65>>, <<66>>}}

BuildRequests ==
    [format : {"V1", "V1a", "V3"}, compression : {"Zlib", "ZStd", "Lz4"},
     deduplicate : BOOLEAN, level : {NoLevel, 0, 6},
     files_to_compress : {{}, {NameFileA, NameFileC}},
     file_copies : {0, 1}, file_copies_a : {0, 1}, files : BuildFiles]

InitBuild ==
    /\ RestIdle
    /\ HashIdle
    /\ HuffIdle
    /\ RdIdle
    /\ ArIdle
    /\ DictIdle
    /\ V1Idle
    /\ ExIdle
    /\ bd_request \in BuildRequests
    /\ bd_result = Failed("None")
    /\ bd_layout = <<>>

\* BfsFile::archive of a v1 or v3 format
BuildArchive ==
    /\ bd_result = Failed("None")
    /\ bd_result' = archive(bd_request)
    /\ bd_layout' = IF bd_request.format = "V3" THEN <<>> ELSE V1Layout(bd_request)
    /\ UNCHANGED <<restVars, hashVars, huffVars, rdVars, arVars, dictVars, v1Vars, exVars, bd_request>>

NextBuild == BuildArchive

SpecBuild == InitBuild /\ [][NextBuild]_vars

(***************************************************************************)
(* Specification SpecNames: decode_all_names on name tables of up to       *)
(* MaxNameTable fragments over up to MaxNameData bytes of Huffman data,    *)
(* with offsets inside and outside the data and lengths below and above    *)
(* what a fragment holds.                                                  *)
(***************************************************************************)
\* root, leaf "a", leaf 0xC8
LossyDict ==
    <<[node_type |-> BRANCH, value |-> 2], [node_type |-> LEAF, value |-> 97],
      [node_type |-> LEAF, value |-> 200]>>

NameDataBytes == {1, 2, 255}

NameLengths == {0, 1, 4, 9}

NameTables ==
    [file_name_offset_table : UNION {SeqOfLen(0..MaxNameData, n) : n \in 1..MaxNameTable},
     file_name_length_table : UNION {SeqOfLen(NameLengths, n) : n \in 1..MaxNameTable},
     serialized_huffman_dict : {DeepDict, LossyDict},
     encoded_huffman_data : SeqsUpTo(NameDataBytes, MaxNameData)]

InitNames ==
    /\ EnIdle
    /\ MoreIdleButRest
    /\ HashIdle
    /\ HuffIdle
    /\ RdIdle
    /\ ArIdle
    /\ nm_tables \in NameTables
    /\ nm_result = Failed("None")

\* decode_all_names(offsets, lengths, dict, data)
DecodeAllNames ==
    /\ nm_result = Failed("None")
    /\ \E overflow_checks \in BOOLEAN :
          nm_result' = decode_all_names(nm_tables.file_name_offset_table,
                                        nm_tables.file_name_length_table,
                                        nm_tables.serialized_huffman_dict,
                                        nm_tables.encoded_huffman_data,
                                        MaxDictSteps, overflow_checks)
    /\ UNCHANGED <<hashVars, huffVars, rdVars, arVars, dictVars, v1Vars, exVars, bdVars,
                   enVars, nm_tables>>

NextNames == DecodeAllNames

SpecNames == InitNames /\ [][NextNames]_vars

(***************************************************************************)
(* C20: the keys of a deserialized dictionary.  The entries that get a key *)
(* are taken level by level from the root: (key, position) pairs, the root *)
(* (1, 0), and for a branch at position p with key k and stored index v    *)
(* the pairs of the entry at v and of the entry at p + 1.                  *)
(***************************************************************************)
\* the pairs below the pairs of a level; `stored_is_odd` gives the entry at
\* the stored index the key (k << 1) | 1 and the next entry k << 1,
\* otherwise the next entry has (k << 1) | 1 and the stored one k << 1
KeyedBelow(serialized, level, stored_is_odd) ==
    UNION {IF e[2] < Len(serialized) /\ serialized[e[2] + 1].node_type = BRANCH
           THEN {<<(e[1] * 2) + (IF stored_is_odd THEN 1 ELSE 0), serialized[e[2] + 1].value>>,
                 <<(e[1] * 2) + (IF stored_is_odd THEN 0 ELSE 1), e[2] + 1>>}
           ELSE {} : e \in level}

RECURSIVE KeyedEntries(_, _, _, _)
KeyedEntries(serialized, level, depth, stored_is_odd) ==
    IF level = {} \/ depth = 0 THEN level
    ELSE level \cup KeyedEntries(serialized, KeyedBelow(serialized, level, stored_is_odd),
                                 depth - 1, stored_is_odd)

KeyedLeaves(serialized, stored_is_odd) ==
    {e \in KeyedEntries(serialized, {<<1, 0>>}, MaxDictSteps, stored_is_odd) :
        e[2] < Len(serialized) /\ serialized[e[2] + 1].node_type = LEAF}

\* the dictionary is the one that maps the key of every keyed leaf to its
\* byte
DictIsOf(dict, serialized, leaves) ==
    /\ DOMAIN dict = {e[1] : e \in leaves}
    /\ \A e \in leaves : dict[e[1]] = serialized[e[2] + 1].value

\* C20 as stated: the root has key 1; of a branch at position p with key k
\* and stored index v, the entry at v receives (k << 1) | 1 and the entry
\* at p + 1 receives k << 1; every leaf maps its key to its byte.
C20_StoredIndexIsOddKey ==
    dd_result.kind = "Ok" =>
        DictIsOf(dd_result.val, dd_serialized, KeyedLeaves(dd_serialized, TRUE))

\* C20 as the code has it: the root has key 1; of a branch at position p
\* with key k and stored index v, the entry at p + 1 receives (k << 1) | 1
\* and the entry at v receives k << 1; every leaf maps its key to its byte.
C20_NextEntryIsOddKey ==
    dd_result.kind = "Ok" =>
        DictIsOf(dd_result.val, dd_serialized, KeyedLeaves(dd_serialized, FALSE))

\* C20: the dictionary of five entries was deserialized: "a" has the key
\* 0b11, "b" 0b101 and "c" 0b100.
C20_Witness ==
    /\ dd_serialized = DeepDict
    /\ dd_result.kind = "Ok"
    /\ DOMAIN dd_result.val = {3, 4, 5}
    /\ dd_result.val[3] = 97

\* C17: a read of an archive in which the name of a record is empty or
\* has a byte outside 0x20..0x7E succeeds, and the record is found under
\* the placeholder name made of its data offset in hexadecimal.
C17_InvalidNameGetsPlaceholder ==
    v1_result.kind # "None" =>
        \A i \in DOMAIN v1_files :
            ~IsValidName(v1_files[i].raw_file_name) =>
                /\ v1_result.kind = "Ok"
                /\ PlaceholderName(v1_files[i].data_offset) \in DOMAIN v1_result.val
                /\ v1_result.val[PlaceholderName(v1_files[i].data_offset)] = i - 1

(***************************************************************************)
(* C13 and C14: the calls file_info and multiple_file_info of a reader.    *)
(***************************************************************************)
InfoHeaders == ex_reader.raw_archive.file_headers

\* the indices of the file headers whose resolved name is one of names
HeadersNamed(names) ==
    {i \in DOMAIN InfoHeaders : file_names(ex_format, ex_reader).val[i] \in names}

\* the headers of HeadersNamed(names), in the order of the archive
InOrder(names) == Ascending(HeadersNamed(names))

\* C13: file_info(name) returns the infos of exactly the file headers whose
\* resolved name equals name, and multiple_file_info(names) returns a
\* (name, info) pair for exactly the headers whose name is in names, both in
\* the order of the headers in the archive.
C13_InfosOfExactlyTheNamed ==
    /\ ex_pc = "file_info" =>
          /\ ex_infos.kind = "Ok"
          /\ Len(ex_infos.val) = Cardinality(HeadersNamed({ex_asked[1]}))
          /\ \A k \in DOMAIN ex_infos.val :
                 ex_infos.val[k] =
                     ArchivedFileInfoFrom(ex_format, InfoHeaders[InOrder({ex_asked[1]})[k]])
    /\ ex_pc = "multiple_file_info" =>
          /\ ex_infos.kind = "Ok"
          /\ Len(ex_infos.val) = Cardinality(HeadersNamed(Range(ex_asked)))
          /\ \A k \in DOMAIN ex_infos.val :
                 /\ ex_infos.val[k][1] =
                        file_names(ex_format, ex_reader).val[InOrder(Range(ex_asked))[k]]
                 /\ ex_infos.val[k][2] =
                        ArchivedFileInfoFrom(ex_format, InfoHeaders[InOrder(Range(ex_asked))[k]])

\* C13 witness: file_info returned two infos for a name that two headers
\* carry, the first header first.
C13_Witness ==
    /\ ex_pc = "file_info"
    /\ ex_infos.kind = "Ok"
    /\ Len(ex_infos.val) = 2
    /\ ex_infos.val[1].offset < ex_infos.val[2].offset

\* C14: the info of a header has its data_offset, unpacked_size, packed_size
\* and file_copies unchanged, a compressed method exactly when the flag 0x01
\* is set, and the stored crc32 as its hash exactly when the flag 0x04 is set.
C14_ProjectionOfHeader ==
    ex_pc = "file_info" /\ ex_infos.kind = "Ok" =>
        \A k \in DOMAIN ex_infos.val :
            \E i \in DOMAIN InfoHeaders :
                /\ i = InOrder({ex_asked[1]})[k]
                /\ ex_infos.val[k].offset = InfoHeaders[i].data_offset
                /\ ex_infos.val[k].size = InfoHeaders[i].unpacked_size
                /\ ex_infos.val[k].compressed_size = InfoHeaders[i].packed_size
                /\ ex_infos.val[k].copies = InfoHeaders[i].file_copies
                /\ (ex_infos.val[k].compression_method # "None") <=> (InfoHeaders[i].flags % 2 = 1)
                /\ ex_infos.val[k].hash =
                       IF (InfoHeaders[i].flags \div 4) % 2 = 1 THEN <<InfoHeaders[i].crc32>>
                       ELSE <<>>

\* C14 witness: one call returned the info of a compressed header without a
\* checksum and the info of a stored header with one and with a copy.
C14_Witness ==
    /\ ex_pc = "file_info"
    /\ ex_infos.kind = "Ok"
    /\ Len(ex_infos.val) = 2
    /\ ex_infos.val[1].compression_method # "None"
    /\ ex_infos.val[1].hash = <<>>
    /\ ex_infos.val[2].compression_method = "None"
    /\ ex_infos.val[2].hash # <<>>
    /\ ex_infos.val[2].copies = 1

(***************************************************************************)
(* C15: a decoded length that differs from the unpacked size.              *)
(***************************************************************************)
\* the k-th file was written with another length than its info says
LengthDiffers(k) == Len(ex_outputs[k].data) # ex_queue[k][2].size

\* what the callback was given tells of a warning
Warns(call) == "warning" \in DOMAIN call

\* C15: when extract_files wrote a file whose decoded length differs from
\* its unpacked size, the callback is told of it as a warning, the call does
\* not fail, and every file asked for is extracted.
C15_LengthMismatchIsSoft ==
    ex_pc = "extracted" /\ ex_result # "CreateError" =>
        \A k \in DOMAIN ex_outputs :
            LengthDiffers(k) =>
                /\ ex_result = "Ok"
                /\ Len(ex_outputs) = Len(ex_queue)
                /\ Len(ex_calls) = Len(ex_queue)
                /\ Warns(ex_calls[k])

(***************************************************************************)
(* C16: requests a revision cannot represent.                              *)
(***************************************************************************)
\* the methods of v1 and v3 tell stored from zlib only
CodecRepresentable(request) == request.compression = "Zlib"

\* the request has files compressed
AsksCompression(request) == request.files_to_compress # {} /\ request.level # 0

\* the two files of the request have the same content and the same
\* compression state, so that deduplication stores the content once
SameContent(request) == request.files[1].data = request.files[2].data

\* C16: archive of a v1 or v3 format ends with an error when files are to be
\* compressed with a codec other than zlib, and when it ends well with
\* deduplication asked for, two files of the same content share their data.
C16_UnrepresentableIsReported ==
    bd_result # Failed("None") =>
        /\ (~CodecRepresentable(bd_request) /\ AsksCompression(bd_request)) =>
               bd_result.kind # "Ok"
        /\ (bd_result.kind = "Ok" /\ bd_request.deduplicate /\ SameContent(bd_request)) =>
               bd_result.val[1].data_offset = bd_result.val[2].data_offset

(***************************************************************************)
(* C21: the place and the size of the file headers of a bucket.            *)
(***************************************************************************)
\* the file headers of the files whose name hashes to the bucket h, as
\* positions in the order the headers are written
HeadersOfBucket(h) == {k \in DOMAIN ar_headers : lua_hash(ar_bfs.all_files[k]) = h}

\* the size computed for a bucket before the data is written: 24 bytes and
\* 4 bytes for every copy asked for, for every file of the bucket
SizeComputed(h) ==
    SumSeq([k \in DOMAIN ar_headers |->
               IF k \in HeadersOfBucket(h)
               THEN 24 + (4 * (ar_bfs.copy_filters[ar_bfs.all_files[k]][1]
                                  + ar_bfs.copy_filters[ar_bfs.all_files[k]][2]))
               ELSE 0])

\* the bytes the file headers of a bucket take in the archive
SizeWritten(h) ==
    SumSeq([k \in DOMAIN ar_headers |->
               IF k \in HeadersOfBucket(h) THEN Len(FileHeaderToBytes(ar_headers[k])) ELSE 0])

\* C21: for every non-empty bucket the offset in its entry of the hash table
\* is the position at which the first file header of the bucket is written,
\* and the file headers of the bucket take the size computed for the bucket
\* before the data was written.
C21_BucketOffsetsMatchHeaders ==
    ArchiveBuilt =>
        \A h \in DOMAIN ar_bfs.file_info_table :
            /\ HeadersOfBucket(h) # {}
            /\ ar_bfs.file_info_table[h].file_header_offset
                   = HeaderOffset(Ascending(HeadersOfBucket(h))[1])
            /\ SizeWritten(h) = SizeComputed(h)

(***************************************************************************)
(* C22: the file header offsets of the builder of v1.                      *)
(***************************************************************************)
BuiltV1 == bd_result # Failed("None") /\ bd_request.format # "V3" /\ bd_result.kind = "Ok"

\* where the header pass writes the k-th file header
V1HeaderWrittenAt(k) ==
    bd_layout.file_header_start_offset
        + SumSeq([m \in 1..(k - 1) |-> V1HeaderSizeOnDisk(bd_result.val[m])])

\* C22: the offset recorded for every file header is the start of the
\* header region plus the sizes on disk (record, name, 4 bytes for every
\* copy offset) of the headers before it, and the running offset after the
\* last file is the data_offset of the archive header.
C22_HeaderOffsetsArePrefixSums ==
    BuiltV1 =>
        /\ \A k \in DOMAIN bd_result.val : bd_layout.header_offsets[k] = V1HeaderWrittenAt(k)
        /\ bd_layout.running = bd_layout.data_offset

(***************************************************************************)
(* C23: the bytes and the bits a name is decoded from.                     *)
(***************************************************************************)
\* the bits of a byte, the least significant first
BitsLsbFirst(byte) == [k \in 1..8 |-> (byte \div Pow2(k - 1)) % 2]

\* the code of every leaf of the two dictionaries: "a" is 1, and in the
\* first "b" is 01 and "c" is 00, in the second 0xC8 is 0
CodesOf(serialized) ==
    IF serialized = DeepDict
    THEN {<<<<1>>, 97>>, <<<<0, 1>>, 98>>, <<<<0, 0>>, 99>>}
    ELSE {<<<<1>>, 97>>, <<<<0>>, 200>>}

\* the bytes whose codes the bits begin with, one after another
RECURSIVE CodedBytes(_, _)
CodedBytes(bits, codes) ==
    IF \E c \in codes : Len(c[1]) <= Len(bits) /\ SubSeq(bits, 1, Len(c[1])) = c[1]
    THEN Bind(CHOOSE c \in codes : Len(c[1]) <= Len(bits) /\ SubSeq(bits, 1, Len(c[1])) = c[1],
              LAMBDA c : <<c[2]>> \o CodedBytes(SubSeq(bits, Len(c[1]) + 1, Len(bits)), codes))
    ELSE <<>>

\* the bytes of the Huffman data from offset[i] to offset[i + 1], to the end
\* of the data for the last offset
FragmentBytes(i) ==
    SubSeq(nm_tables.encoded_huffman_data, nm_tables.file_name_offset_table[i] + 1,
           IF i < Len(nm_tables.file_name_offset_table)
           THEN nm_tables.file_name_offset_table[i + 1]
           ELSE Len(nm_tables.encoded_huffman_data))

\* the bytes coded in the fragment i
FragmentCoded(i) ==
    CodedBytes(Flatten([k \in DOMAIN FragmentBytes(i) |-> BitsLsbFirst(FragmentBytes(i)[k])]),
               CodesOf(nm_tables.serialized_huffman_dict))

NamesDecoded == nm_result.kind = "Ok"

\* C23 as stated: every name is decoded from the bytes of its fragment, the
\* bits of a byte least significant first, and has exactly length[i]
\* decoded bytes.
C23_ExactlyLengthBytes ==
    NamesDecoded =>
        \A i \in DOMAIN nm_result.val :
            /\ Len(nm_result.val[i]) = nm_tables.file_name_length_table[i]
            /\ nm_result.val[i]
                   = from_utf8_lossy(SubSeq(FragmentCoded(i), 1,
                                            nm_tables.file_name_length_table[i]))

\* C23 amended: every name is decoded from the bytes of its fragment, the
\* bits of a byte least significant first, and is the first length[i]
\* bytes coded there, or all of them when the fragment codes fewer; the
\* bits after them are not read.
C23_AtMostLengthBytes ==
    NamesDecoded =>
        \A i \in DOMAIN nm_result.val :
            nm_result.val[i]
                = from_utf8_lossy(SubSeq(FragmentCoded(i), 1,
                                         Min(nm_tables.file_name_length_table[i],
                                             Len(FragmentCoded(i)))))

\* C23 witness: two names were decoded, the first from a fragment that
\* codes more bytes than its length, the second from a fragment that begins
\* inside the data and codes other bytes than the first.
C23_Witness ==
    /\ NamesDecoded
    /\ Len(nm_result.val) = 2
    /\ nm_tables.file_name_length_table[1] = 4
    /\ Len(nm_result.val[1]) = 4
    /\ Len(FragmentCoded(1)) > 4
    /\ nm_tables.file_name_offset_table[2] > 0
    /\ Len(nm_result.val[2]) = 1
    /\ nm_result.val[2][1] # nm_result.val[1][1]

(***************************************************************************)
(* C24: the end of deserialize_huffman_dict.                               *)
(***************************************************************************)
\* the positions a branch entry at position p sends the walk to
DictChildren(serialized, p) ==
    IF p < Len(serialized) /\ serialized[p + 1].node_type = BRANCH
    THEN {p + 1, serialized[p + 1].value}
    ELSE {}

\* the positions the walk comes to from the positions of from, in at most n
\* further steps
RECURSIVE DictReached(_, _, _)
DictReached(serialized, from, n) ==
    IF n = 0 THEN from
    ELSE DictReached(serialized,
                     from \cup UNION {DictChildren(serialized, p) : p \in from}, n - 1)

\* the walk from the root comes to a branch entry that it comes to again
\* from that entry
DictLoops(serialized) ==
    \E p \in DictReached(serialized, {0}, Len(serialized)) :
        p \in DictReached(serialized, DictChildren(serialized, p), Len(serialized))

DictCalled == dd_result # Failed("None")

\* C24: deserialize_huffman_dict ends and returns a table also for a
\* serialized dictionary with a branch entry whose index is its own position
\* or a position before it, so that the walk comes back to the entry.
C24_DeserializeTerminates ==
    DictCalled /\ DictLoops(dd_serialized) => dd_result.kind = "Ok"

(***************************************************************************)
(* C25: the order of the writes of archive.                                *)
(***************************************************************************)
\* the loop over the files is running
InDataPass == ar_pc = "data" /\ ar_i < Len(ar_bfs.all_files)

\* the loop is over and the header pass comes next
BeforeHeaderPass == ar_pc = "data" /\ ar_i = Len(ar_bfs.all_files)

\* the seeks among operations
SeeksOf(ops) == SelectSeq(ops, LAMBDA op : op.kind = "seek")

\* the writer when the header pass has made its last write
HeaderPassEnd == Run(ar_writer, ArchiveHeaderOps(ar_bfs, ar_headers), <<>>).w

\* the bytes of the destination from data_offset on
DataRegion(file) ==
    FileBytes(file, ar_bfs.bfs_header.data_offset, file.len - ar_bfs.bfs_header.data_offset)

\* C25: the loop over the files seeks nowhere and writes at or after
\* data_offset; the header pass seeks once, to 0, after the last file, and
\* ends at or before data_offset; the built file has, from data_offset on,
\* the bytes that the loop wrote.
C25_OneBackwardSeek ==
    /\ ar_pc = "data" => WriterPosition(ar_writer) >= ar_bfs.bfs_header.data_offset
    /\ InDataPass => SeeksOf(ArchiveTurn.ops) = <<>>
    /\ BeforeHeaderPass =>
          /\ SeeksOf(ArchiveHeaderOps(ar_bfs, ar_headers)) = <<SeekOp(0)>>
          /\ ArchiveHeaderOps(ar_bfs, ar_headers)[1] = SeekOp(0)
          /\ WriterPosition(HeaderPassEnd) <= ar_bfs.bfs_header.data_offset
    /\ ArchiveBuilt =>
          /\ ar_file.len = Flushed(ar_writer).file.len
          /\ DataRegion(ar_file) = DataRegion(Flushed(ar_writer).file)

\* C25 witness: an archive of two files or more is built, with file data
\* after the placeholder.
C25_Witness ==
    /\ ArchiveBuilt
    /\ Len(ar_bfs.all_files) >= 2
    /\ ar_file.len > ar_bfs.bfs_header.data_offset
    /\ \E b \in 1..(ar_file.len - ar_bfs.bfs_header.data_offset) : DataRegion(ar_file)[b] # 0

(***************************************************************************)
(* C26: the seek and the read of a file in extract_files.                  *)
(***************************************************************************)
Extracted == ex_pc = "extracted"

\* the files extract_files got as far as reading
FilesRead == {ex_ops[j].file : j \in DOMAIN ex_ops}

\* C26: the operations of the reader come in pairs, the seek to the offset
\* of a file and directly after it the read of its compressed_size bytes
\* from that offset, file after file in the order of the list.
C26_SeekThenReadBackToBack ==
    Extracted =>
        /\ Len(ex_ops) % 2 = 0
        /\ \A j \in 1..(Len(ex_ops) \div 2) :
              /\ ex_ops[(2 * j) - 1] = ReaderSeek(j, ex_queue[j][2].offset)
              /\ ex_ops[2 * j] = ReaderRead(j, ex_queue[j][2].offset,
                                            ex_queue[j][2].compressed_size)
        /\ Len(ex_outputs) = Len(ex_ops) \div 2
        /\ \A j \in DOMAIN ex_outputs :
              ex_outputs[j].data
                  = extract_data(ex_stream, ex_queue[j][2].offset,
                                 ex_queue[j][2].compressed_size,
                                 ex_queue[j][2].compression_method, TRUE).written

\* C26 witness: two files at different offsets were extracted.
C26_Witness ==
    /\ Extracted
    /\ ex_result = "Ok"
    /\ Len(ex_ops) = 4
    /\ ex_ops[1].at # ex_ops[3].at
    /\ ex_outputs[1].data # <<>>

(***************************************************************************)
(* Specification SpecEntries: the dictionaries create_huffman_tree makes   *)
(* for short names, and one for names of WideNameLen different bytes (the  *)
(* names of the builder are ASCII without NUL and without "/"); the bytes  *)
(* the builder writes for them, and what the readers make of the           *)
(* dictionary.                                                             *)
(***************************************************************************)
MaxEntryName == 4

WideNameLen == 126

\* the steps given to the walk of a dictionary: more than it has entries
MaxEntrySteps == 260

\* short names over a few bytes, 0x80 among them
EntryNameBytes == {97, 98, 99, 128}

EntryNames == {<<name>> : name \in SeqsUpTo(EntryNameBytes, MaxEntryName) \ {<<>>}}

\* a name of WideNameLen different bytes, each once
WideName == [i \in 1..WideNameLen |-> i]

\* the trees in the order of their frequency, lowest first
ByFrequency(trees) ==
    Flatten([k \in 1..Cardinality({trees[i].frequency : i \in DOMAIN trees}) |->
                SelectSeq(trees, LAMBDA t :
                    t.frequency = Ascending({trees[i].frequency : i \in DOMAIN trees})[k])])

\* The loop `while trees.len() != 1` with one choice at every pop, for
\* trees in the order of their frequency: the trees of the lowest frequency
\* are popped two by two; one that is left over is popped with a tree of
\* the next frequency.  The tree returned is one of MergeTrees.
RECURSIVE MergeTreesOnce(_, _)
MergeTreesOnce(trees, internal_node_id) ==
    IF Len(trees) = 1 THEN trees[1]
    ELSE Bind(Max({1, Len(SelectSeq(trees, LAMBDA t : t.frequency = trees[1].frequency))
                        \div 2}),
              LAMBDA pairs :
                 MergeTreesOnce(
                     ByFrequency(SubSeq(trees, (2 * pairs) + 1, Len(trees))
                                 \o [i \in 1..pairs |->
                                        BranchTree(internal_node_id + (i - 1),
                                                   trees[(2 * i) - 1], trees[2 * i])]),
                     internal_node_id + pairs))

\* one of the byte vectors of create_huffman_tree(<<WideName>>)
WideTree ==
    Bind(MergeTreesOnce([i \in DOMAIN WideName |-> LeafTree(WideName[i], 1)], 0), LAMBDA tree :
        serialize(set_internal_node_values(tree, serialize(tree))))

\* the dictionaries of the builder, as it keeps them (v2/mod.rs: the
\* chunks of two bytes through HuffmanTreeEntry::from_bytes)
EntryDicts ==
    {TreeEntries(tree) : tree \in UNION {create_huffman_tree(names) : names \in EntryNames}}
    \cup {TreeEntries(WideTree)}

InitEntries ==
    /\ NmIdle
    /\ MoreIdleButRest
    /\ HashIdle
    /\ HuffIdle
    /\ RdIdle
    /\ ArIdle
    /\ en_entry \in EntryDicts
    /\ en_bytes = <<>>
    /\ en_parsed = <<>>

\* the builder writes the dictionary: to_bytes of every entry
EntriesToBytes ==
    /\ en_bytes = <<>>
    /\ en_bytes' = HuffmanTreeToBytes(en_entry)
    /\ UNCHANGED <<nmVars, hashVars, huffVars, rdVars, arVars, dictVars, v1Vars, exVars,
                   bdVars, en_entry, en_parsed>>

\* The readers: the entries that binrw parses from the bytes
\* (HuffmanDictEntry), the table of deserialize_huffman_dict for the
\* entries of the builder, and the table of huffman_tree_to_map for them.
EntriesRead ==
    /\ en_bytes # <<>>
    /\ en_parsed = <<>>
    /\ \E overflow_checks \in BOOLEAN :
          en_parsed' = [entries |-> SerializedHuffmanDictRead(Chunk(en_bytes), 0, Len(en_entry)),
                        dict |-> deserialize_huffman_dict(en_entry, MaxEntrySteps,
                                                           overflow_checks),
                        map |-> huffman_tree_to_map(en_entry, 1)[1]]
    /\ UNCHANGED <<nmVars, hashVars, huffVars, rdVars, arVars, dictVars, v1Vars, exVars,
                   bdVars, en_entry, en_bytes>>

NextEntries == EntriesToBytes \/ EntriesRead

SpecEntries == InitEntries /\ [][NextEntries]_vars

(***************************************************************************)
(* C27, C28: the dictionary of the builder and the readers.                *)
(***************************************************************************)
EntriesWereRead == en_parsed # <<>>

\* C27: for a dictionary of create_huffman_tree, deserialize_huffman_dict
\* returns the table that huffman_tree_to_map fills.
C27_SameTable ==
    EntriesWereRead => en_parsed.dict = Parsed(en_parsed.map)

\* C27 witness: a dictionary of WideNameLen leaves was read, with a branch
\* whose right child is not the entry after its left child.
C27_Witness ==
    /\ EntriesWereRead
    /\ Cardinality(DOMAIN en_parsed.map) = WideNameLen
    /\ en_parsed.dict.kind = "Ok"
    /\ \E i \in DOMAIN en_entry : en_entry[i].node_type = BRANCH /\ en_entry[i].value > i + 1

\* C28: every entry the builder writes is parsed by the reader with the
\* node type and the value the builder gave it.
C28_SameByteOrder ==
    EntriesWereRead =>
        /\ en_parsed.entries.kind = "Ok"
        /\ \A i \in DOMAIN en_entry :
              /\ en_parsed.entries.val[i].node_type = en_entry[i].node_type
              /\ en_parsed.entries.val[i].value = en_entry[i].value

(***************************************************************************)
(* C29: calculate_metadata_count on the tables of the builder.             *)
(***************************************************************************)
\* archive has made the header and the tables and has written nothing yet
ArchivePrepared == ar_pc = "create"

\* the FileNameTableHeader of the builder as the MetadataHeader the reader
\* parses from its 20 bytes
BuilderMetadataHeader ==
    [file_headers_offset |-> ar_bfs.file_name_table_header.file_headers_offset,
     file_name_offset_table_offset |-> ar_bfs.file_name_table_header.file_offset_table_offset,
     file_name_length_table_offset |->
         ar_bfs.file_name_table_header.file_name_size_table_offset,
     huffman_dictionary_offset |-> ar_bfs.file_name_table_header.huffman_tree_offset,
     huffman_data_offset |-> ar_bfs.file_name_table_header.huffman_data_offset]

\* the count the reader computes for the table at wanted_start
BuilderCount(wanted_start, overflow_checks) ==
    calculate_metadata_count(wanted_start, BuilderMetadataHeader,
                             ar_bfs.bfs_header.data_offset,
                             calculate_metadata_start(
                                 [hash_size |-> ar_bfs.bfs_header.file_info_table_entry_count,
                                  entries_len |-> ar_bfs.bfs_header.file_info_table_entry_count]),
                             overflow_checks)

\* C29: for the tables of the builder calculate_metadata_count returns the
\* number of name offsets, of name lengths, of dictionary entries and of
\* bytes of Huffman data that the builder writes.
C29_CountsAreWhatWasWritten ==
    ArchivePrepared =>
        \A overflow_checks \in BOOLEAN :
            /\ BuilderCount(BuilderMetadataHeader.file_name_offset_table_offset, overflow_checks)
                   = Len(ar_bfs.file_name_offset_table)
            /\ BuilderCount(BuilderMetadataHeader.file_name_length_table_offset, overflow_checks)
                   = Len(ar_bfs.file_name_size_table)
            /\ BuilderCount(BuilderMetadataHeader.huffman_dictionary_offset, overflow_checks)
                   = Len(ar_bfs.file_name_huffman_tree)
            /\ BuilderCount(BuilderMetadataHeader.huffman_data_offset, overflow_checks)
                   = Len(ar_bfs.file_name_huffman_data)

\* C29 witness: tables of two names or more, with a dictionary of three
\* entries or more and Huffman data, are prepared.
C29_Witness ==
    /\ ArchivePrepared
    /\ Len(ar_bfs.file_name_offset_table) >= 2
    /\ Len(ar_bfs.file_name_huffman_tree) >= 3
    /\ Len(ar_bfs.file_name_huffman_data) >= 2
    /\ Len(ar_bfs.file_name_huffman_data) # Len(ar_bfs.file_name_huffman_tree)

(***************************************************************************)
(* C30: reading an archive without files.                                  *)
(***************************************************************************)
V1WasRead == v1_result # Failed("None")

\* C30: read_bfs_from_file on an archive whose file_count is 0 succeeds,
\* with no file and no name.
C30_EmptyArchiveIsRead ==
    V1WasRead /\ Len(v1_files) = 0 => v1_result = Parsed(<<>>)

====
